---- MODULE Spec2Model ----
(***************************************************************************)
(* Orchestration core of ia_text_2_speak: Turn records, the TurnStore, the *)
(* asyncio WorkerPool and the VoicePipeline state machine, with the        *)
(* SQLiteMemory log and the ToolRegistry as far as the pipeline uses them. *)
(*                                                                         *)
(* The executors are asyncio tasks of one event loop.  A task gives the    *)
(* loop back only at `await self.queue.get()`; `self.pipeline.run(turn)`   *)
(* is a plain synchronous call.  The steps of a run are separate actions   *)
(* because threads that do not need the loop (the synchronous get_turn     *)
(* route runs in a thread pool) read the record between them.              *)
(***************************************************************************)
EXTENDS Integers, Sequences, FiniteSets, TLC

\* ------------------------------------------------------------- bounds
MaxTurns == 2
MaxEnqueues == 2
Concurrency == 2
max_history_turns == 1

TurnIds == 1..MaxTurns
Executors == 1..Concurrency
Sessions == {"A", "B"}

\* ------------------------------------------------------------- values
NoneVal == "None"
Unset == <<>>
Some(v) == <<v>>

NoTurn == 0
NoCall == [op |-> "none"]
NoResponse == [route |-> "none"]
AudioPath == "turn.wav"
system_prompt == "Tu es un assistant vocal local"

Transcripts == {"", "oui"}
Answers == {"", "ok"}

\* The characters of the texts of the model (Python iterates a str by character).
Characters(s) ==
    CASE s = "" -> <<>>
      [] s = "ok" -> <<"o", "k">>
      [] s = "oui" -> <<"o", "u", "i">>
      [] s = "bonjour" -> <<"b", "o", "n", "j", "o", "u", "r">>
      [] OTHER -> <<"?">>

\* str.strip() on the texts of the model: none has surrounding blanks.
Strip(s) == s

\* Mutant: `is not None` in place of Python truthiness.
TruthyNotNone(s) == s # NoneVal
\* Python truthiness of an Optional[str].
Truthy(s) == s # NoneVal /\ s # ""
OrEmpty(s) == IF Truthy(s) THEN s ELSE ""

Terminal == {"done", "error"}
InFlight == {"transcribing", "generating", "synthesizing"}

\* str(uuid.uuid4()) for the session of turn t.
GeneratedSession(t) ==
    CASE t = 1 -> "session_1" [] t = 2 -> "session_2" [] OTHER -> "session_n"

\* Turn.new(session_id) plus the audio reference the caller sets (models.py):
\* session_id or a generated one.
NewTurn(t, s, audio) ==
    [turn_id |-> t, session_id |-> IF Truthy(s) THEN s ELSE GeneratedSession(t),
     status |-> "queued",
     audio_in_path |-> audio, transcript |-> NoneVal,
     assistant_text |-> NoneVal, audio_out_path |-> NoneVal,
     error |-> NoneVal, timings |-> {},
     tool_calls |-> Unset, tool_results |-> Unset]

\* ------------------------------------------------------------- tools
\* The tool calls chat_with_tools hands back: id, name, raw argument string.
call_a == [id |-> "call_a", name |-> "finance_price", arguments |-> "{\"symbol\": \"BTCUSD\"}"]
call_b == [id |-> "call_b", name |-> "nope", arguments |-> ""]
call_c == [id |-> "call_c", name |-> "meteo", arguments |-> "{oops"]
call_list == <<call_b, call_a, call_c>>
ToolCallLists == {<<>>, call_list}

\* A ToolEndpoint: whether a handler is bound, the url, the method.
LocalEndpoint == [handler |-> TRUE, url |-> NoneVal, method |-> "POST"]
RemoteEndpoint(url, method) == [handler |-> FALSE, url |-> url, method |-> method]

\* The registry server.py builds when TOOL_ENDPOINTS_JSON names one remote
\* service with a method: that entry, then the two local handlers.
Endpoints ==
    [n \in {"meteo", "finance_price", "train_line_l_departures"} |->
        IF n = "meteo" THEN RemoteEndpoint("http://meteo", "post") ELSE LocalEndpoint]

\* A parsed JSON value as the registry sees it: a dict (the set of its
\* <<key, value>> pairs) or a value that is no Mapping.
Dict(items) == [mapping |-> TRUE, items |-> items]
NotMapping == [mapping |-> FALSE, items |-> {}]

\* arguments.get(key)
DictGet(items, key) ==
    IF \E p \in items : p[1] = key
    THEN (CHOOSE p \in items : p[1] = key)[2]
    ELSE NoneVal

\* json.loads(call.get("arguments") or "{}") with JSONDecodeError -> {}.
ParseArgumentsStrict(raw) ==
    CASE raw = "{\"symbol\": \"BTCUSD\"}" -> Dict({<<"symbol", "BTCUSD">>})
      [] raw = "{\"payload\": \"paris\"}" -> Dict({<<"payload", "paris">>})
      [] OTHER -> NotMapping
ParseArguments(raw) ==
    CASE raw = "{\"symbol\": \"BTCUSD\"}" -> Dict({<<"symbol", "BTCUSD">>})
      [] raw = "{\"payload\": \"paris\"}" -> Dict({<<"payload", "paris">>})
      [] raw = "[1]" -> NotMapping
      [] OTHER -> Dict({})

\* What a bound handler does with its arguments, and what the remote service
\* does with a request: inputs of execute.
HandlerOutcomes == {"return", "http_exception", "exception"}
RemoteOutcomes == {"request_exception", "json", "bad_json", "text", "http_error"}

\* str.upper() on the methods of the model.
Upper(method) == CASE method = "post" -> "POST" [] method = "get" -> "GET" [] OTHER -> method

\* An exception that leaves a call, by its type.
Raised(type) == [raised |-> type]
Returned(result) == "ok" \in DOMAIN result

\* Mutant: a handler's exception is not caught.
HandlerFailedRaises(tool_name) == Raised("Exception")
\* except Exception as exc: the failure as a result (tool_registry.py 73-77).
HandlerFailed(tool_name) == [ok |-> FALSE, error |-> "handler_failed: boom"]

\* The request execute sends (tool_registry.py 85-92).
Request(endpoint, arguments) ==
    [method |-> Upper(endpoint.method), url |-> endpoint.url,
     json |-> IF arguments.mapping THEN DictGet(arguments.items, "payload") ELSE NoneVal]

\* ToolRegistry.execute on the registry `endpoints`; the behaviour of the
\* handler or of the remote service is the input `outcome`.  The result is
\* the dict returned, or Raised(..) for an exception that leaves execute:
\* endpoint.method.upper() on a method that is no str is evaluated inside the
\* try, whose except clause names requests.RequestException only.
Execute(endpoints, tool_name, arguments, outcome) ==
    IF tool_name \notin DOMAIN endpoints
    THEN [ok |-> FALSE, error |-> "tool_not_found: " \o tool_name]
    ELSE LET endpoint == endpoints[tool_name]
         IN  IF endpoint.handler
             THEN CASE outcome = "return" -> [ok |-> TRUE, data |-> arguments]
                    [] outcome = "http_exception" ->
                           [ok |-> FALSE, error |-> "detail", status_code |-> 502]
                    [] OTHER -> HandlerFailed(tool_name)
             ELSE IF ~Truthy(endpoint.url)
             THEN [ok |-> FALSE, error |-> "tool_missing_url: " \o tool_name]
             ELSE IF endpoint.method = NoneVal
             THEN Raised("AttributeError")
             ELSE CASE outcome = "request_exception" ->
                           [ok |-> FALSE, error |-> "request_failed: timeout"]
                    [] outcome = "json" ->
                           [ok |-> TRUE, status_code |-> 200, data |-> "data", text |-> NoneVal]
                    [] outcome = "http_error" ->
                           [ok |-> FALSE, status_code |-> 500, data |-> NoneVal, text |-> "body"]
                    [] OTHER ->
                           [ok |-> TRUE, status_code |-> 200, data |-> NoneVal, text |-> "body"]

\* The behaviours a call of tool_name can meet on the registry `endpoints`.
OutcomesOf(endpoints, tool_name) ==
    IF tool_name \notin DOMAIN endpoints THEN {"none"}
    ELSE IF endpoints[tool_name].handler THEN HandlerOutcomes
    ELSE IF Truthy(endpoints[tool_name].url) /\ endpoints[tool_name].method # NoneVal
    THEN RemoteOutcomes
    ELSE {"none"}

\* The handler and service behaviours the pool is run against.
ExecuteOutcomes(tool_name) ==
    OutcomesOf(Endpoints, tool_name) \cap {"none", "return", "exception", "request_exception"}

\* json.dumps(result, ensure_ascii=False)
JsonDumps(result) == <<"json", result>>

\* ------------------------------------------------------------- memory
\* The embedding provider on the texts of the model (OpenAI embeddings.create);
\* components are non-negative here.
EmbeddingOf(text) ==
    CASE text = "oui" -> <<1, 0>>
      [] text = "bonjour" -> <<0, 1>>
      [] text = "ok" -> <<1, 1>>
      [] OTHER -> <<1, 2>>

Dot(q, c) == q[1] * c[1] + q[2] * c[2]
NormSq(v) == Dot(v, v)

\* _cosine_similarity(q, c1) > _cosine_similarity(q, c2), for vectors with
\* non-negative components: dot/(|q||c|) compared through squares, 0.0 for a
\* zero norm.
ScoreGreater(q, c1, c2) ==
    LET z1 == NormSq(c1) = 0 \/ NormSq(q) = 0
        z2 == NormSq(c2) = 0 \/ NormSq(q) = 0
    IN  IF z1 THEN FALSE
        ELSE IF z2 THEN Dot(q, c1) > 0
        ELSE Dot(q, c1) * Dot(q, c1) * NormSq(c2) > Dot(q, c2) * Dot(q, c2) * NormSq(c1)

\* scored.sort(key=score, reverse=True): stable, so a row goes after every
\* row already placed whose score is not smaller.
RECURSIVE InsertByScore(_, _, _)
InsertByScore(q, row, sorted) ==
    IF sorted = <<>> THEN <<row>>
    ELSE IF ScoreGreater(q, row.embedding, Head(sorted).embedding)
         THEN <<row>> \o sorted
         ELSE <<Head(sorted)>> \o InsertByScore(q, row, Tail(sorted))

RECURSIVE SortByScore(_, _, _)
SortByScore(q, rows, acc) ==
    IF rows = <<>> THEN acc
    ELSE SortByScore(q, Tail(rows), InsertByScore(q, Head(rows), acc))

Reverse(seq) == [i \in 1..Len(seq) |-> seq[Len(seq) + 1 - i]]
Take(seq, n) == SubSeq(seq, 1, IF n < Len(seq) THEN n ELSE Len(seq))

\* Mutant: WHERE session_id = ? left out of the query.
SelectAnySession(rows, session) == rows
\* WHERE session_id = ?
SelectSession(rows, session) == SelectSeq(rows, LAMBDA r : r.session_id = session)

\* Mutant: ORDER BY id ASC.
OldestFirst(rows) == rows
\* ORDER BY id DESC on rows kept in the order of their ids.
NewestFirst(rows) == Reverse(rows)

candidate_limit == 200

\* SQLiteMemory.search once the query is embedded: the session's rows of
\* memory_vectors, newest first, at most candidate_limit, ranked, the
\* contents of the first `limit`.
SearchRowsWith(vectors, session, query, limit, candidates) ==
    LET rows == Take(NewestFirst(SelectSession(vectors, session)), candidates)
        ranked == SortByScore(EmbeddingOf(query), rows, <<>>)
        top == Take(ranked, limit)
    IN  [i \in 1..Len(top) |-> top[i].content]
SearchRows(vectors, session, query, limit) ==
    SearchRowsWith(vectors, session, query, limit, candidate_limit)

\* Mutant: fetch_recent without rows.reverse().
FetchRecentNewestFirst(rows, session, limit) ==
    IF limit <= 0 THEN <<>>
    ELSE LET newest == Take(NewestFirst(SelectSession(rows, session)), limit)
         IN  [i \in 1..Len(newest) |->
                 [role |-> newest[i].role, content |-> newest[i].content]]
\* SQLiteMemory.fetch_recent on the rows of memories.
FetchRecent(rows, session, limit) ==
    IF limit <= 0 THEN <<>>
    ELSE LET newest == Take(NewestFirst(SelectSession(rows, session)), limit)
             oldest == Reverse(newest)
         IN  [i \in 1..Len(oldest) |->
                 [role |-> oldest[i].role, content |-> oldest[i].content]]

\* ------------------------------------------------------------- state
VARIABLES
    store,             \* TurnStore._turns: turn_id -> Turn
    queue,             \* WorkerPool.queue: the turn ids of the waiting jobs
    unfinished_tasks,  \* asyncio.Queue's count of jobs not yet task_done()
    pool,              \* "new", "started" or "stopped"
    pc,                \* where each executor task stands
    frame,             \* the locals of each executor's Pipeline run, the exception
                       \* that left it, and the collaborator calls it made
    pipeline_history,  \* VoicePipeline._history: session -> messages
    memories,          \* table memories of SQLiteMemory
    memory_vectors,    \* table memory_vectors of SQLiteMemory
    tool_registry,     \* whether the Pipeline was given a ToolRegistry
    memory,            \* whether the Pipeline was given a SQLiteMemory
    enqueues,          \* jobs enqueued so far (bounded by MaxEnqueues)
    history_limit,     \* max_history_turns of the Pipeline whose history is run on
                       \* its own
    registry,          \* ToolRegistry._endpoints of the registry run on its own
    executions,        \* the calls of ToolRegistry.execute made on it, with what
                       \* each sent and gave back
    memory_call,       \* the last call made on the SQLiteMemory run on its own:
                       \* its arguments, what it added to the tables, its result
    response,          \* the last response of a route of routes_turns, with the
                       \* status the record had when the route read it
    store_call,        \* the last call made on the TurnStore run on its own
    all_returned,      \* what the last TurnStore.all() gave back
    poll,              \* the polling client run_pipeline: where it stands, what
                       \* it has seen
    ring,              \* the RingBuffer run on its own: _chunks, _size_bytes, and
                       \* what the last get_bytes gave back
    voice              \* the locals and fields of VoiceAssistant.run's loop

\* The variables of the unit specifications, which the pool leaves alone,
\* and those of the pool, which the unit specifications leave alone.
extraVars == <<store_call, all_returned, poll, ring, voice>>
unitVars == <<history_limit, registry, executions, memory_call, response, extraVars>>
poolVars == <<store, queue, unfinished_tasks, pool, pc, frame, pipeline_history,
              memories, memory_vectors, tool_registry, memory, enqueues>>

vars == <<store, queue, unfinished_tasks, pool, pc, frame, pipeline_history,
          memories, memory_vectors, tool_registry, memory, enqueues, unitVars>>

\* RingBuffer.__init__ (assistant_voice.py 107-110); `arrived` are the chunks
\* stored since the buffer was last empty by construction or clear, and
\* nothing has been returned yet.
EmptyRing == [chunks |-> <<>>, size_bytes |-> 0, arrived |-> <<>>, returned |-> NoCall]

\* VoiceAssistant.__init__ and the locals of run before its loop
\* (assistant_voice.py 130-138, 167-170).  Times are in milliseconds and kept
\* relative to the clock reading of the current iteration: `elapsed` is
\* time.monotonic() - capture_start, `cooldown_left` is cooldown_until -
\* time.monotonic(), 0 once past.  `ring_empty` and `recognizer_fresh` say
\* whether the ring buffer holds no chunk and whether the recognizer has
\* been fed nothing since it was built; `rms` and `last` are the level of
\* the last captured frame and what the last iteration did.
NewAssistant ==
    [pc |-> "new", capturing |-> FALSE, silence_ms |-> 0, elapsed |-> 0,
     cooldown_left |-> 0, ring_empty |-> TRUE, recognizer_fresh |-> TRUE,
     rms |-> 0, last |-> "none"]

\* The state of every component run on its own before its first call.
ExtraInit ==
    /\ store_call = NoCall
    /\ all_returned = NoCall
    /\ poll = [pc |-> "new", turn_id |-> NoTurn, session_id |-> NoneVal,
               read |-> NoneVal, audio_url |-> NoneVal, assistant_text |-> NoneVal,
               exception |-> NoneVal]
    /\ ring = EmptyRing
    /\ voice = NewAssistant

EmptyFrame ==
    [turn |-> NoTurn, messages |-> <<>>, rag_snippets |-> <<>>, answer |-> NoneVal,
     tool_calls |-> <<>>, tool_messages |-> <<>>, tool_results |-> <<>>,
     raised |-> NoneVal, calls |-> <<>>, put_back |-> FALSE]

Init ==
    /\ store = <<>>
    /\ queue = <<>>
    /\ unfinished_tasks = 0
    /\ pool = "new"
    /\ pc = [e \in Executors |-> "new"]
    /\ frame = [e \in Executors |-> EmptyFrame]
    /\ pipeline_history = <<>>
    /\ memories = <<>>
    /\ memory_vectors = <<>>
    /\ tool_registry \in BOOLEAN
    /\ memory \in BOOLEAN
    /\ enqueues = 0
    /\ history_limit = max_history_turns
    /\ registry = Endpoints
    /\ executions = <<>>
    /\ memory_call = NoCall
    /\ response = NoResponse
    /\ ExtraInit

\* TurnStore.put / TurnStore.get
PutAlone(turns, turn) == [t \in {turn.turn_id} |-> turn]
Put(turns, turn) ==
    [t \in DOMAIN turns \cup {turn.turn_id} |->
        IF t = turn.turn_id THEN turn ELSE turns[t]]
Has(turns, t) == t \in DOMAIN turns

\* dict.setdefault(session, [])
SetDefaultGreeting(h, session) ==
    [s \in DOMAIN h \cup {session} |->
        IF s \in DOMAIN h THEN h[s] ELSE <<[role |-> "user", content |-> ""]>>]
SetDefault(h, session) ==
    [s \in DOMAIN h \cup {session} |-> IF s \in DOMAIN h THEN h[s] ELSE <<>>]

\* Mutant: the Pipeline run handed to a thread, so the loop is never held.
LoopFreeAlways == TRUE

\* An executor that is neither suspended in queue.get() nor gone holds the
\* event loop: nothing between queue.get() and the next queue.get() awaits.
Suspended == {"new", "idle", "cancelled"}
LoopFree == \A e \in Executors : pc[e] \in Suspended

\* ------------------------------------------------------------- ingress
\* str(uuid.uuid4()): an id no record has; the ids are handed out in order.
FreshId(t) == t = Cardinality(DOMAIN store) + 1

\* Mutant: create_turn enqueues the id of a record it never stores.
CreatedWithoutPut(t, s) ==
    /\ LoopFree
    /\ FreshId(t)
    /\ enqueues < MaxEnqueues
    /\ queue' = Append(queue, t)
    /\ unfinished_tasks' = unfinished_tasks + 1
    /\ enqueues' = enqueues + 1
    /\ UNCHANGED <<store, pool, pc, frame, pipeline_history, memories, memory_vectors,
                   tool_registry, memory>>

\* What routes_turns.create_turn does to the store and the queue: a fresh
\* id, the audio stored, put, then enqueue (the unbounded queue takes the job
\* without suspending).
Created(t, s) ==
    /\ LoopFree
    /\ FreshId(t)
    /\ enqueues < MaxEnqueues
    /\ store' = Put(store, NewTurn(t, s, AudioPath))
    /\ queue' = Append(queue, t)
    /\ unfinished_tasks' = unfinished_tasks + 1
    /\ enqueues' = enqueues + 1
    /\ UNCHANGED <<pool, pc, frame, pipeline_history, memories, memory_vectors,
                   tool_registry, memory>>

\* routes_turns.create_turn, its response left aside.
CreateTurn(t, s) ==
    /\ Created(t, s)
    /\ UNCHANGED unitVars

\* store.put(Turn.new(session_id)) by a caller on the event loop that sets
\* no usable audio reference.
PutTurn(t, s, audio) ==
    /\ LoopFree
    /\ FreshId(t)
    /\ store' = Put(store, NewTurn(t, s, audio))
    /\ UNCHANGED <<queue, unfinished_tasks, pool, pc, frame, pipeline_history,
                   memories, memory_vectors, tool_registry, memory, enqueues, unitVars>>

\* WorkerPool.enqueue(turn_id), for any id: stored or not, queued before or not.
Enqueue(t) ==
    /\ LoopFree
    /\ enqueues < MaxEnqueues
    /\ queue' = Append(queue, t)
    /\ unfinished_tasks' = unfinished_tasks + 1
    /\ enqueues' = enqueues + 1
    /\ UNCHANGED <<store, pool, pc, frame, pipeline_history, memories,
                   memory_vectors, tool_registry, memory, unitVars>>

\* ------------------------------------------------------------- worker pool
\* WorkerPool.start: one task per executor, each then waits in queue.get().
Start ==
    /\ pool = "new"
    /\ LoopFree
    /\ pool' = "started"
    /\ pc' = [e \in Executors |-> "idle"]
    /\ UNCHANGED <<store, queue, unfinished_tasks, frame, pipeline_history,
                   memories, memory_vectors, tool_registry, memory, enqueues, unitVars>>

\* Mutant: stop() cancels no task.
StopWithoutCancel ==
    /\ pool = "started"
    /\ LoopFree
    /\ pool' = "stopped"
    /\ UNCHANGED <<store, queue, unfinished_tasks, pc, frame, pipeline_history,
                   memories, memory_vectors, tool_registry, memory, enqueues, unitVars>>

\* WorkerPool.stop: it runs on the loop, so every task is suspended in
\* queue.get() and the cancellation ends it there.
Stop ==
    /\ pool = "started"
    /\ LoopFree
    /\ pool' = "stopped"
    /\ pc' = [e \in Executors |-> "cancelled"]
    /\ UNCHANGED <<store, queue, unfinished_tasks, frame, pipeline_history,
                   memories, memory_vectors, tool_registry, memory, enqueues, unitVars>>

\* Whether executor e may take the next job: it is at the top of its loop,
\* or it waits in queue.get() and the loop is free to resume it.
CanGet(e) == pc[e] = "loop" \/ (pc[e] = "idle" /\ LoopFree)

\* Mutant: the queue hands out the newest job.
GetLast(q) == [job |-> q[Len(q)], rest |-> SubSeq(q, 1, Len(q) - 1)]
\* asyncio.Queue.get() on a queue that is not empty: the oldest job.
Get(q) == [job |-> Head(q), rest |-> Tail(q)]

\* Mutant: the job of an absent record is never marked complete.
SkipWithoutTaskDone(e) ==
    /\ pc' = [pc EXCEPT ![e] = "loop"]
    /\ UNCHANGED <<unfinished_tasks, frame>>
\* if not turn: self.queue.task_done(); continue
SkipAbsent(e) ==
    /\ pc' = [pc EXCEPT ![e] = "loop"]
    /\ unfinished_tasks' = unfinished_tasks - 1
    /\ UNCHANGED frame

\* job = await self.queue.get(); turn = self.store.get(job.turn_id);
\* an absent record is skipped, else the Pipeline is run on the record.
Dequeue(e) ==
    /\ CanGet(e)
    /\ queue # <<>>
    /\ queue' = Get(queue).rest
    /\ IF Has(store, Get(queue).job)
       THEN /\ pc' = [pc EXCEPT ![e] = "run"]
            /\ frame' = [frame EXCEPT ![e] = [EmptyFrame EXCEPT !.turn = Get(queue).job]]
            /\ UNCHANGED unfinished_tasks
       ELSE SkipAbsent(e)
    /\ UNCHANGED <<store, pool, pipeline_history, memories, memory_vectors,
                   tool_registry, memory, enqueues, unitVars>>

\* queue.get() on an empty queue suspends the task.
Suspend(e) ==
    /\ pc[e] = "loop"
    /\ queue = <<>>
    /\ pc' = [pc EXCEPT ![e] = "idle"]
    /\ UNCHANGED <<store, queue, unfinished_tasks, pool, frame, pipeline_history,
                   memories, memory_vectors, tool_registry, memory, enqueues, unitVars>>

\* Mutant: no except clause; the exception ends the executor task.
Uncaught(e, msg) ==
    /\ store' = store
    /\ pc' = [pc EXCEPT ![e] = "cancelled"]

\* Mutant: the handler records the message and forgets the status.
CaughtNoStatus(e, msg) ==
    /\ store' = [store EXCEPT ![frame[e].turn].error = msg]
    /\ pc' = [pc EXCEPT ![e] = "finally"]

\* Mutant: the handler records the failure and runs the Pipeline again.
CaughtRetry(e, msg) ==
    /\ store' = [store EXCEPT ![frame[e].turn].status = "error",
                              ![frame[e].turn].error = msg]
    /\ pc' = [pc EXCEPT ![e] = "run"]

\* except Exception as e: turn.status = error; turn.error = str(e)
Caught(e, msg) ==
    /\ store' = [store EXCEPT ![frame[e].turn].status = "error",
                              ![frame[e].turn].error = msg]
    /\ pc' = [pc EXCEPT ![e] = "finally"]

\* An exception `msg` leaves pipeline.run during (or, for ev.raised = FALSE,
\* after) the collaborator call `ev`.
Raise(e, ev, msg) ==
    /\ frame' = [frame EXCEPT ![e].calls = Append(@, ev), ![e].raised = msg]
    /\ Caught(e, msg)

\* Mutant: the finally block goes straight to task_done().
FinallyWithoutPut(e) ==
    /\ pc[e] = "finally"
    /\ pc' = [pc EXCEPT ![e] = "task_done"]
    /\ UNCHANGED <<store, queue, unfinished_tasks, pool, frame, pipeline_history,
                   memories, memory_vectors, tool_registry, memory, enqueues, unitVars>>

\* finally: self.store.put(turn)
Finally(e) ==
    /\ pc[e] = "finally"
    /\ store' = Put(store, store[frame[e].turn])
    /\ frame' = [frame EXCEPT ![e].put_back = TRUE]
    /\ pc' = [pc EXCEPT ![e] = "task_done"]
    /\ UNCHANGED <<queue, unfinished_tasks, pool, pipeline_history, memories,
                   memory_vectors, tool_registry, memory, enqueues, unitVars>>

\* finally: self.queue.task_done(), and back to the top of the loop.
TaskDoneTwice(e) ==
    /\ pc[e] = "task_done"
    /\ unfinished_tasks' = unfinished_tasks - 2
    /\ pc' = [pc EXCEPT ![e] = "loop"]
    /\ frame' = [frame EXCEPT ![e] = EmptyFrame]
    /\ UNCHANGED <<store, queue, pool, pipeline_history, memories, memory_vectors,
                   tool_registry, memory, enqueues, unitVars>>

TaskDone(e) ==
    /\ pc[e] = "task_done"
    /\ unfinished_tasks' = unfinished_tasks - 1
    /\ pc' = [pc EXCEPT ![e] = "loop"]
    /\ frame' = [frame EXCEPT ![e] = EmptyFrame]
    /\ UNCHANGED <<store, queue, pool, pipeline_history, memories, memory_vectors,
                   tool_registry, memory, enqueues, unitVars>>

\* ------------------------------------------------------------- pipeline
TurnOf(e) == store[frame[e].turn]
Called(e, ev) == Append(frame[e].calls, ev)

Msg(role, content) == [role |-> role, content |-> content]

\* Mutant: the current utterance goes before the history.
MessagesUtteranceFirst(rag_snippets, history, transcript) ==
    <<Msg("system", system_prompt)>>
    \o (IF rag_snippets # <<>>
        THEN <<[role |-> "system", content |-> "Memoire long terme pertinente:",
                rag |-> rag_snippets]>>
        ELSE <<>>)
    \o <<Msg("user", OrEmpty(transcript))>>
    \o history

\* pipeline.py 52-82: system prompt, the memory block if recall gave
\* snippets, the session's history, the current utterance.
Messages(rag_snippets, history, transcript) ==
    <<Msg("system", system_prompt)>>
    \o (IF rag_snippets # <<>>
        THEN <<[role |-> "system", content |-> "Memoire long terme pertinente:",
                rag |-> rag_snippets]>>
        ELSE <<>>)
    \o history
    \o <<Msg("user", OrEmpty(transcript))>>

\* Mutant: recording a duration drops the entries recorded before.
TimedAlone(timings, key) == {key}
\* turn.timings[key] = dt: the keys of the dict after the assignment.
Timed(timings, key) == timings \cup {key}

\* Where a run goes once assistant_text is set (pipeline.py 145).
AfterAnswer == IF memory THEN "append_user" ELSE "push_history"

\* history[-n:] of a Python list (history[-0:] is the whole list).
LastN(seq, n) ==
    IF n = 0 \/ n >= Len(seq) THEN seq ELSE SubSeq(seq, Len(seq) - n + 1, Len(seq))

OutPathOf(t) ==
    CASE t = 1 -> "turn_1.wav" [] t = 2 -> "turn_2.wav" [] t = 3 -> "turn_3.wav"
      [] OTHER -> "turn_n.wav"

\* pipeline.py 38-44: the audio check, then status transcribing.
RunStart(e) ==
    /\ pc[e] = "run"
    /\ IF ~Truthy(TurnOf(e).audio_in_path)
       THEN /\ store' = [store EXCEPT ![frame[e].turn].status = "error",
                                      ![frame[e].turn].error = "audio_in_path is missing"]
            /\ pc' = [pc EXCEPT ![e] = "finally"]
       ELSE /\ store' = [store EXCEPT ![frame[e].turn].status = "transcribing"]
            /\ pc' = [pc EXCEPT ![e] = "asr"]
    /\ UNCHANGED <<queue, unfinished_tasks, pool, frame, pipeline_history, memories,
                   memory_vectors, tool_registry, memory, enqueues, unitVars>>

\* pipeline.py 45-59: asr.transcribe, then status generating and the choice
\* whether to recall.
Transcribe(e) ==
    /\ pc[e] = "asr"
    /\ \/ /\ Raise(e, [op |-> "asr", raised |-> TRUE], "asr failed")
          /\ UNCHANGED pipeline_history
       \/ \E transcript \in Transcripts :
            LET t == frame[e].turn
                session == store[t].session_id
                h == SetDefault(pipeline_history, session)
                recall == memory /\ Strip(OrEmpty(transcript)) # ""
            IN  /\ store' = [store EXCEPT ![t].transcript = transcript,
                                          ![t].timings = Timed(@, "asr_s"),
                                          ![t].status = "generating"]
                /\ pipeline_history' = h
                /\ frame' = [frame EXCEPT
                       ![e].calls = Called(e, [op |-> "asr", raised |-> FALSE]),
                       ![e].messages =
                           IF recall THEN <<>> ELSE Messages(<<>>, h[session], transcript)]
                /\ pc' = [pc EXCEPT ![e] = IF recall THEN "search" ELSE "llm"]
    /\ UNCHANGED <<queue, unfinished_tasks, pool, memories, memory_vectors,
                   tool_registry, memory, enqueues, unitVars>>

\* for content, role, created_at in rag_items: each item is a str, unpacked
\* by character.
Unpacks(item) == Len(Characters(item)) = 3
Snippet(item) ==
    [content |-> Characters(item)[1], role |-> Characters(item)[2],
     created_at |-> Characters(item)[3]]
UnpackError(items) ==
    LET bad == CHOOSE i \in 1..Len(items) :
                  /\ ~Unpacks(items[i])
                  /\ \A j \in 1..(i - 1) : Unpacks(items[j])
    IN  IF Len(Characters(items[bad])) < 3
        THEN "not enough values to unpack"
        ELSE "too many values to unpack"

\* pipeline.py 59-82: memory.search (memory.py 98-123), the snippets, the prompt.
Search(e) ==
    /\ pc[e] = "search"
    /\ LET t == frame[e].turn
           session == store[t].session_id
           query == OrEmpty(store[t].transcript)
           ev(raised, found) ==
               [op |-> "search", query |-> query, raised |-> raised, found |-> found]
           built(items) ==
               LET snippets == [i \in 1..Len(items) |-> Snippet(items[i])]
               IN  /\ frame' = [frame EXCEPT
                          ![e].calls = Called(e, ev(FALSE, Len(items))),
                          ![e].rag_snippets = snippets,
                          ![e].messages =
                              Messages(snippets, pipeline_history[session], store[t].transcript)]
                   /\ pc' = [pc EXCEPT ![e] = "llm"]
                   /\ UNCHANGED store
       IN  IF query = "" \/ max_history_turns <= 0
           THEN built(<<>>)
           ELSE \/ Raise(e, ev(TRUE, 0), "embedding failed")
                \/ LET items == SearchRows(memory_vectors, session, query, max_history_turns)
                   IN  IF \A i \in 1..Len(items) : Unpacks(items[i])
                       THEN built(items)
                       ELSE Raise(e, ev(FALSE, Len(items)), UnpackError(items))
    /\ UNCHANGED <<queue, unfinished_tasks, pool, pipeline_history, memories,
                   memory_vectors, tool_registry, memory, enqueues, unitVars>>

\* The assistant message that lists the requested tool calls (pipeline.py 94-110).
ToolCallMessage(answer, tool_calls) ==
    [role |-> "assistant", content |-> answer,
     tool_calls |-> [i \in 1..Len(tool_calls) |->
                        [id |-> tool_calls[i].id, type |-> "function",
                         function |-> [name |-> tool_calls[i].name,
                                       arguments |-> tool_calls[i].arguments]]]]

\* Mutant: the tool loop is never entered.
WantsToolsIgnored(tool_calls) == FALSE

\* pipeline.py 93: if tool_calls and self.tool_registry
WantsTools(tool_calls) == tool_calls # <<>> /\ tool_registry

\* Mutant: the assistant message listing the tool calls is left out.
FollowupWithoutCalls(messages, tool_messages) == messages \o Tail(tool_messages)

\* pipeline.py 135: followup_messages = messages + tool_messages
FollowupMessages(messages, tool_messages) == messages \o tool_messages

\* pipeline.py 83-111 and 141-142: the first model invocation.
Llm(e) ==
    /\ pc[e] = "llm"
    /\ LET t == frame[e].turn
           ev(raised, text, requested) ==
               [op |-> "llm", tools |-> tool_registry, messages |-> frame[e].messages,
                raised |-> raised, text |-> text, tool_calls |-> requested]
       IN  \/ Raise(e, ev(TRUE, NoneVal, <<>>), "llm failed")
           \/ \E answer \in Answers :
              \E tool_calls \in IF tool_registry THEN ToolCallLists ELSE {<<>>} :
                IF WantsTools(tool_calls)
                THEN /\ store' = [store EXCEPT ![t].timings = Timed(@, "llm_s")]
                     /\ frame' = [frame EXCEPT
                            ![e].calls = Called(e, ev(FALSE, answer, tool_calls)),
                            ![e].answer = answer,
                            ![e].tool_calls = tool_calls,
                            ![e].tool_messages = <<ToolCallMessage(answer, tool_calls)>>,
                            ![e].tool_results = <<>>]
                     /\ pc' = [pc EXCEPT ![e] = "tool"]
                ELSE /\ store' = [store EXCEPT ![t].timings = Timed(@, "llm_s"),
                                               ![t].assistant_text = answer]
                     /\ frame' = [frame EXCEPT
                            ![e].calls = Called(e, ev(FALSE, answer, tool_calls)),
                            ![e].answer = answer]
                     /\ pc' = [pc EXCEPT ![e] = AfterAnswer]
    /\ UNCHANGED <<queue, unfinished_tasks, pool, pipeline_history, memories,
                   memory_vectors, tool_registry, memory, enqueues, unitVars>>

\* pipeline.py 112-133: one iteration of the tool loop.  An exception that
\* leaves execute leaves the run.
ToolExec(e) ==
    /\ pc[e] = "tool"
    /\ LET k == Len(frame[e].tool_results) + 1
           call == frame[e].tool_calls[k]
           ev(outcome, raised) ==
               [op |-> "tool", id |-> call.id, name |-> call.name,
                arguments |-> ParseArguments(call.arguments),
                outcome |-> outcome, raised |-> raised]
       IN  \E outcome \in ExecuteOutcomes(call.name) :
             LET result == Execute(registry, call.name, ParseArguments(call.arguments), outcome)
             IN  IF Returned(result)
                 THEN /\ frame' = [frame EXCEPT
                             ![e].calls = Called(e, ev(outcome, FALSE)),
                             ![e].tool_results = Append(@,
                                 [tool_call_id |-> call.id, name |-> call.name,
                                  result |-> result]),
                             ![e].tool_messages = Append(@,
                                 [role |-> "tool", tool_call_id |-> call.id,
                                  name |-> call.name, content |-> JsonDumps(result)])]
                      /\ pc' = [pc EXCEPT ![e] =
                             IF k = Len(frame[e].tool_calls) THEN "llm_tools" ELSE "tool"]
                      /\ UNCHANGED store
                 ELSE Raise(e, ev(outcome, TRUE), result.raised)
    /\ UNCHANGED <<queue, unfinished_tasks, pool, pipeline_history, memories,
                   memory_vectors, tool_registry, memory, enqueues, unitVars>>

\* pipeline.py 135-140: the second model invocation.
LlmTools(e) ==
    /\ pc[e] = "llm_tools"
    /\ LET t == frame[e].turn
           followup_messages == FollowupMessages(frame[e].messages, frame[e].tool_messages)
           ev(raised, text) ==
               [op |-> "llm", tools |-> FALSE, messages |-> followup_messages,
                raised |-> raised, text |-> text, tool_calls |-> <<>>]
       IN  \/ Raise(e, ev(TRUE, NoneVal), "llm failed")
           \/ \E final_answer \in Answers :
                /\ store' = [store EXCEPT
                       ![t].timings = Timed(@, "llm_tools_s"),
                       ![t].assistant_text = final_answer,
                       ![t].tool_calls = Some(frame[e].tool_calls),
                       ![t].tool_results = Some(frame[e].tool_results)]
                /\ frame' = [frame EXCEPT ![e].calls = Called(e, ev(FALSE, final_answer))]
                /\ pc' = [pc EXCEPT ![e] = AfterAnswer]
    /\ UNCHANGED <<queue, unfinished_tasks, pool, pipeline_history, memories,
                   memory_vectors, tool_registry, memory, enqueues, unitVars>>

\* SQLiteMemory.append (memory.py 61-78) for non-empty content once the
\* embedding is there: one row in each table.
AppendedMemories(session, role, content) ==
    Append(memories, [session_id |-> session, role |-> role, content |-> content])
AppendedVectors(session, role, content) ==
    Append(memory_vectors,
           [memory_id |-> Len(memories) + 1, session_id |-> session, role |-> role,
            content |-> content, embedding |-> EmbeddingOf(content)])

\* memory.append(session, role, content) as the Pipeline calls it; `next` is
\* where the run goes when it returns.  Empty content returns at once; an
\* exception of the embedding call leaves the `with` block, which rolls the
\* INSERT back.
MemoryAppend(e, role, content, next) ==
    LET session == TurnOf(e).session_id
        ev(raised) == [op |-> "append", role |-> role, content |-> content,
                       raised |-> raised]
        returned == /\ frame' = [frame EXCEPT ![e].calls = Called(e, ev(FALSE))]
                    /\ pc' = [pc EXCEPT ![e] = next]
                    /\ UNCHANGED store
    IN  IF content = ""
        THEN returned /\ UNCHANGED <<memories, memory_vectors>>
        ELSE \/ /\ Raise(e, ev(TRUE), "embedding failed")
                /\ UNCHANGED <<memories, memory_vectors>>
             \/ /\ memories' = AppendedMemories(session, role, content)
                /\ memory_vectors' = AppendedVectors(session, role, content)
                /\ returned

\* pipeline.py 146
AppendUser(e) ==
    /\ pc[e] = "append_user"
    /\ MemoryAppend(e, "user", OrEmpty(TurnOf(e).transcript), "append_assistant")
    /\ UNCHANGED <<queue, unfinished_tasks, pool, pipeline_history, tool_registry,
                   memory, enqueues, unitVars>>

\* pipeline.py 147
AppendAssistant(e) ==
    /\ pc[e] = "append_assistant"
    /\ MemoryAppend(e, "assistant", OrEmpty(TurnOf(e).assistant_text), "push_history")
    /\ UNCHANGED <<queue, unfinished_tasks, pool, pipeline_history, tool_registry,
                   memory, enqueues, unitVars>>

\* pipeline.py 148-152: the two messages pushed, the list cut to its last
\* 2 * max_history_turns.
PushedWith(max_turns, history, transcript, assistant_text) ==
    LET h == history \o <<Msg("user", OrEmpty(transcript)),
                          Msg("assistant", OrEmpty(assistant_text))>>
        max_messages == max_turns * 2
    IN  IF Len(h) > max_messages THEN LastN(h, max_messages) ELSE h
Pushed(history, transcript, assistant_text) ==
    PushedWith(max_history_turns, history, transcript, assistant_text)

\* pipeline.py 148-155: push to the history, then status synthesizing.
PushHistoryEverywhere(e) ==
    /\ pc[e] = "push_history"
    /\ LET t == frame[e].turn
       IN  /\ pipeline_history' = [session \in DOMAIN pipeline_history |->
                  Pushed(pipeline_history[session], store[t].transcript,
                         store[t].assistant_text)]
           /\ store' = [store EXCEPT ![t].status = "synthesizing"]
    /\ pc' = [pc EXCEPT ![e] = "tts"]
    /\ UNCHANGED <<queue, unfinished_tasks, pool, frame, memories, memory_vectors,
                   tool_registry, memory, enqueues, unitVars>>

PushHistory(e) ==
    /\ pc[e] = "push_history"
    /\ LET t == frame[e].turn
           session == store[t].session_id
       IN  /\ pipeline_history' = [pipeline_history EXCEPT ![session] =
                  Pushed(@, store[t].transcript, store[t].assistant_text)]
           /\ store' = [store EXCEPT ![t].status = "synthesizing"]
    /\ pc' = [pc EXCEPT ![e] = "tts"]
    /\ UNCHANGED <<queue, unfinished_tasks, pool, frame, memories, memory_vectors,
                   tool_registry, memory, enqueues, unitVars>>

\* pipeline.py 156-159: tts.synthesize, which writes the file, then the
\* output reference and the duration.
Synthesize(e) ==
    /\ pc[e] = "tts"
    /\ LET t == frame[e].turn
           ev(raised) == [op |-> "tts", text |-> OrEmpty(store[t].assistant_text),
                          raised |-> raised]
       IN  \/ Raise(e, ev(TRUE), "Piper failed")
           \/ /\ frame' = [frame EXCEPT ![e].calls = Called(e, ev(FALSE))]
              /\ store' = [store EXCEPT ![t].audio_out_path = OutPathOf(t),
                                        ![t].timings = Timed(@, "tts_s")]
              /\ pc' = [pc EXCEPT ![e] = "mark_done"]
    /\ UNCHANGED <<queue, unfinished_tasks, pool, pipeline_history, memories,
                   memory_vectors, tool_registry, memory, enqueues, unitVars>>

\* pipeline.py 161-162: status done, and the run returns.
MarkDone(e) ==
    /\ pc[e] = "mark_done"
    /\ store' = [store EXCEPT ![frame[e].turn].status = "done"]
    /\ pc' = [pc EXCEPT ![e] = "finally"]
    /\ UNCHANGED <<queue, unfinished_tasks, pool, frame, pipeline_history, memories,
                   memory_vectors, tool_registry, memory, enqueues, unitVars>>

\* ------------------------------------------------------------- specification
Ingress ==
    \/ \E t \in TurnIds, s \in Sessions : CreateTurn(t, s)
    \/ \E t \in TurnIds, audio \in {NoneVal, ""} : PutTurn(t, "A", audio)
    \/ \E t \in TurnIds : Enqueue(t)

Worker(e) ==
    \/ Dequeue(e)
    \/ Suspend(e)
    \/ RunStart(e)
    \/ Transcribe(e)
    \/ Search(e)
    \/ Llm(e)
    \/ ToolExec(e)
    \/ LlmTools(e)
    \/ AppendUser(e)
    \/ AppendAssistant(e)
    \/ PushHistory(e)
    \/ Synthesize(e)
    \/ MarkDone(e)
    \/ Finally(e)
    \/ TaskDone(e)

Next ==
    \/ Ingress
    \/ Start
    \/ Stop
    \/ \E e \in Executors : Worker(e)

Spec == Init /\ [][Next]_vars

\* Executors and the pool under weak fairness: the event loop resumes a
\* ready task, and a collaborator call returns or raises.
LiveSpec == Spec /\ WF_vars(\E e \in Executors : Worker(e)) /\ WF_vars(Start)

\* ------------------------------------------------------------- ToolRegistry on its own
MaxExecutions == 2

\* No pool: nothing stored, nothing queued, no executor started.
PoolAbsent ==
    /\ store = <<>>
    /\ queue = <<>>
    /\ unfinished_tasks = 0
    /\ pool = "new"
    /\ pc = [e \in Executors |-> "new"]
    /\ frame = [e \in Executors |-> EmptyFrame]
    /\ pipeline_history = <<>>
    /\ memories = <<>>
    /\ memory_vectors = <<>>
    /\ tool_registry = TRUE
    /\ memory = FALSE
    /\ enqueues = 0

\* entry.get("method", "POST") of a TOOL_ENDPOINTS_JSON entry (server.py 83):
\* whatever JSON value the entry holds, null included; it is not validated.
Methods == {"post", "get", NoneVal}

\* The registries execute is run on: a local handler, a remote service with
\* one of the methods, an endpoint with neither handler nor url.
RegistryWith(method) ==
    [n \in {"finance_price", "meteo", "bare"} |->
        CASE n = "meteo" -> RemoteEndpoint("http://meteo", method)
          [] n = "bare" -> RemoteEndpoint(NoneVal, "POST")
          [] OTHER -> LocalEndpoint]

ToolNames == {"finance_price", "meteo", "bare", "nope"}
ArgumentValues == {Dict({}), Dict({<<"payload", "paris">>}), NotMapping}

ToolInit ==
    /\ PoolAbsent
    /\ history_limit = max_history_turns
    /\ registry \in {RegistryWith(method) : method \in Methods}
    /\ executions = <<>>
    /\ memory_call = NoCall
    /\ response = NoResponse
    /\ ExtraInit

\* Whether execute gets as far as sending a request.
Sends(endpoints, tool_name) ==
    /\ tool_name \in DOMAIN endpoints
    /\ ~endpoints[tool_name].handler
    /\ Truthy(endpoints[tool_name].url)
    /\ endpoints[tool_name].method # NoneVal

\* registry.execute(tool_name, arguments), the handler or the service
\* behaving as `outcome`.
ExecuteCall(tool_name, arguments, outcome) ==
    /\ Len(executions) < MaxExecutions
    /\ outcome \in OutcomesOf(registry, tool_name)
    /\ executions' = Append(executions,
           [tool_name |-> tool_name, arguments |-> arguments, outcome |-> outcome,
            sent |-> IF Sends(registry, tool_name)
                     THEN Some(Request(registry[tool_name], arguments)) ELSE Unset,
            result |-> Execute(registry, tool_name, arguments, outcome)])
    /\ UNCHANGED <<history_limit, registry, memory_call, response, extraVars, poolVars>>

ToolNext ==
    \E tool_name \in ToolNames, arguments \in ArgumentValues,
       outcome \in HandlerOutcomes \cup RemoteOutcomes \cup {"none"} :
        ExecuteCall(tool_name, arguments, outcome)

ToolSpec == ToolInit /\ [][ToolNext]_vars

\* ------------------------------------------------------------- the history on its own
MaxHistoryLimit == 2

\* A Pipeline built with any max_history_turns >= 0 (pipeline.py 23, 31).
HistoryInit ==
    /\ PoolAbsent
    /\ history_limit \in 0..MaxHistoryLimit
    /\ registry = Endpoints
    /\ executions = <<>>
    /\ memory_call = NoCall
    /\ response = NoResponse
    /\ ExtraInit

\* What a run does to _history (pipeline.py 50 and 148-152): the session's
\* list is created if absent, the turn's two messages pushed, the list cut.
PushTurn(session, transcript, assistant_text) ==
    LET h == SetDefault(pipeline_history, session)
    IN  /\ Len(h[session]) <= 2 * MaxHistoryLimit
        /\ pipeline_history' = [h EXCEPT ![session] =
               PushedWith(history_limit, @, transcript, assistant_text)]
        /\ UNCHANGED <<store, queue, unfinished_tasks, pool, pc, frame, memories,
                       memory_vectors, tool_registry, memory, enqueues, unitVars>>

HistoryNext ==
    \E session \in Sessions, transcript \in Transcripts, assistant_text \in Answers :
        PushTurn(session, transcript, assistant_text)

HistorySpec == HistoryInit /\ [][HistoryNext]_vars

\* ------------------------------------------------------------- SQLiteMemory on its own
MaxAppends == 3

MemoryInit ==
    /\ PoolAbsent
    /\ history_limit = max_history_turns
    /\ registry = Endpoints
    /\ executions = <<>>
    /\ memory_call = NoCall
    /\ response = NoResponse
    /\ ExtraInit

Roles == {"user", "assistant"}
Contents == {"", "oui", "bonjour"}
Queries == {"", "oui", "ok"}
Limits == 0..2
CandidateLimits == {2, candidate_limit}
\* client.embeddings.create gives a vector or raises.
EmbedOutcomes == {"vector", "raise"}

MemoryUnchanged ==
    UNCHANGED <<store, queue, unfinished_tasks, pool, pc, frame, pipeline_history,
                tool_registry, memory, enqueues, history_limit, registry, executions,
                response, extraVars>>

\* memory.append(session, role, content), the embedding provider behaving as
\* `outcome` if it is called.
AppendCall(session, role, content, outcome) ==
    /\ Len(memories) < MaxAppends
    /\ IF content = ""
       THEN UNCHANGED <<memories, memory_vectors>>
       ELSE IF outcome = "raise"
       THEN UNCHANGED <<memories, memory_vectors>>
       ELSE /\ memories' = AppendedMemories(session, role, content)
            /\ memory_vectors' = AppendedVectors(session, role, content)
    /\ memory_call' =
           [op |-> "append", session_id |-> session, role |-> role, content |-> content,
            embedded |-> content # "",
            raised |-> content # "" /\ outcome = "raise",
            logged |-> Len(memories') - Len(memories),
            vectors |-> Len(memory_vectors') - Len(memory_vectors)]
    /\ MemoryUnchanged

\* memory.fetch_recent(session, limit)
FetchRecentCall(session, limit) ==
    /\ memory_call' =
           [op |-> "fetch_recent", session_id |-> session, limit |-> limit,
            result |-> FetchRecent(memories, session, limit)]
    /\ UNCHANGED <<memories, memory_vectors>>
    /\ MemoryUnchanged

\* memory.search(session, query, limit, candidate_limit) (memory.py 98-123):
\* nothing for an empty query or limit <= 0, else the query is embedded.
SearchCall(session, query, limit, candidates, outcome) ==
    LET embedded == query # "" /\ limit > 0
        raised == embedded /\ outcome = "raise"
    IN  /\ memory_call' =
               [op |-> "search", session_id |-> session, query |-> query,
                limit |-> limit, candidate_limit |-> candidates,
                embedded |-> embedded, raised |-> raised,
                result |-> IF embedded /\ ~raised
                           THEN SearchRowsWith(memory_vectors, session, query, limit,
                                               candidates)
                           ELSE <<>>]
        /\ UNCHANGED <<memories, memory_vectors>>
        /\ MemoryUnchanged

MemoryNext ==
    \/ \E session \in Sessions, role \in Roles, content \in Contents,
          outcome \in EmbedOutcomes : AppendCall(session, role, content, outcome)
    \/ \E session \in Sessions, limit \in Limits : FetchRecentCall(session, limit)
    \/ \E session \in Sessions, query \in Queries, limit \in Limits,
          candidates \in CandidateLimits, outcome \in EmbedOutcomes :
            SearchCall(session, query, limit, candidates, outcome)

MemorySpec == MemoryInit /\ [][MemoryNext]_vars

\* ------------------------------------------------------------- the routes with the pool
MaxPosts == 1

\* session_id of POST /v1/turns: given or left out.
SuppliedSessions == {"A", NoneVal}

\* A route's return value as the response, and HTTPException(404, detail).
Ok(body) == [status_code |-> 200, body |-> body]
NotFound(detail) == [status_code |-> 404, detail |-> detail]

\* POST /v1/turns (routes_turns.py 13-30).
PostTurn(t, session_id) ==
    /\ enqueues < MaxPosts
    /\ Created(t, session_id)
    /\ LET turn == NewTurn(t, session_id, AudioPath)
       IN  response' =
               [route |-> "create_turn", turn_id |-> t, given |-> session_id,
                result |-> Ok([turn_id |-> turn.turn_id, session_id |-> turn.session_id])]
    /\ UNCHANGED <<history_limit, registry, executions, memory_call, extraVars>>

\* The routes that only read: nothing but the response changes.
ReadOnly ==
    UNCHANGED <<poolVars, history_limit, registry, executions, memory_call, extraVars>>

\* What a route has read of turn t: whether it is stored, and its status.
Seen(route, t, result) ==
    [route |-> route, turn_id |-> t, stored |-> Has(store, t),
     status |-> IF Has(store, t) THEN store[t].status ELSE NoneVal,
     result |-> result]

\* turn.audio_out_path and os.path.exists(turn.audio_out_path)
AudioAvailable(turn, on_disk) == Truthy(turn.audio_out_path) /\ on_disk

\* GET /v1/turns/{turn_id} (routes_turns.py 33-54), a plain function run in
\* a thread: it runs between any two steps of an executor.  Turn declares no
\* tool_calls and no tool_results (models.py 19-33): reading them on a record
\* the tool loop never set raises AttributeError.
GetTurnResult(t, on_disk) ==
    IF ~Has(store, t) THEN NotFound("turn not found")
    ELSE IF store[t].tool_calls = Unset THEN Raised("AttributeError")
    ELSE IF store[t].tool_results = Unset THEN Raised("AttributeError")
    ELSE Ok([turn_id |-> store[t].turn_id,
             session_id |-> store[t].session_id,
             status |-> store[t].status,
             transcript |-> store[t].transcript,
             assistant_text |-> store[t].assistant_text,
             tool_calls |-> store[t].tool_calls[1],
             tool_results |-> store[t].tool_results[1],
             audio_url |-> IF AudioAvailable(store[t], on_disk)
                           THEN <<"/v1/turns/", t, "/audio">> ELSE NoneVal,
             error |-> store[t].error,
             timings |-> store[t].timings])

GetTurn(t, on_disk) ==
    /\ response' = Seen("get_turn", t, GetTurnResult(t, on_disk))
    /\ ReadOnly

\* GET /v1/turns/{turn_id}/audio (routes_turns.py 57-69), run in a thread.
GetTurnAudio(t, on_disk) ==
    /\ response' = Seen("get_turn_audio", t,
           IF ~Has(store, t) \/ ~Truthy(store[t].audio_out_path)
           THEN NotFound("audio not available")
           ELSE IF ~on_disk THEN NotFound("audio file missing")
           ELSE Ok([file |-> store[t].audio_out_path]))
    /\ ReadOnly

Routes ==
    \/ \E t \in TurnIds, session_id \in SuppliedSessions : PostTurn(t, session_id)
    \/ \E t \in TurnIds, on_disk \in BOOLEAN : GetTurn(t, on_disk)
    \/ \E t \in TurnIds, on_disk \in BOOLEAN : GetTurnAudio(t, on_disk)

ApiNext ==
    \/ Routes
    \/ Start
    \/ Stop
    \/ \E e \in Executors : Worker(e)

ApiSpec == Init /\ [][ApiNext]_vars

\* ------------------------------------------------------------- the polling client
\* What run_pipeline leaves alone: everything of the server but what the
\* route it calls changes.
ClientOnly ==
    UNCHANGED <<history_limit, registry, executions, memory_call, response,
                store_call, all_returned, ring, voice>>

\* requests.post(/v1/turns) ... session_id = response_payload["session_id"]
\* (assistant_loop.py 83-96): create_turn runs on the server's loop.
ClientPost(t, session_id) ==
    /\ poll.pc = "new"
    /\ Created(t, session_id)
    /\ poll' = [poll EXCEPT !.pc = "polling", !.turn_id = t,
                            !.session_id = NewTurn(t, session_id, AudioPath).session_id]
    /\ ClientOnly

\* One round of the poll (assistant_loop.py 100-111): GET the turn, decode
\* the body as JSON and read its "status".  The answer to an exception in
\* get_turn is a 500 with a text body, which .json() refuses
\* (JSONDecodeError); a 404 carries {"detail": ...}, without "status"
\* (KeyError).  `read` is the status the record had when get_turn read it.
ClientPoll(on_disk) ==
    /\ poll.pc = "polling"
    /\ LET t == poll.turn_id
           result == GetTurnResult(t, on_disk)
           read == IF Has(store, t) THEN store[t].status ELSE NoneVal
       IN  poll' =
             IF "raised" \in DOMAIN result
             THEN [poll EXCEPT !.pc = "raised", !.read = read,
                               !.exception = "JSONDecodeError"]
             ELSE IF result.status_code # 200
             THEN [poll EXCEPT !.pc = "raised", !.read = read, !.exception = "KeyError"]
             ELSE IF result.body.status = "done"
             THEN [poll EXCEPT !.pc = "download", !.read = read,
                               !.audio_url = result.body.audio_url,
                               !.assistant_text = result.body.assistant_text]
             ELSE IF result.body.status = "error"
             THEN [poll EXCEPT !.pc = "raised", !.read = read,
                               !.exception = <<"RuntimeError", result.body.error>>]
             ELSE [poll EXCEPT !.read = read]
    /\ UNCHANGED poolVars
    /\ ClientOnly

\* The download and the return (assistant_loop.py 114-121): the URL is
\* built from audio_url, None included ("http://127.0.0.1:8000None", which
\* requests refuses); the response's content is written whatever its status.
ClientDownload ==
    /\ poll.pc = "download"
    /\ poll' = IF poll.audio_url = NoneVal
               THEN [poll EXCEPT !.pc = "raised", !.exception = "InvalidURL"]
               ELSE [poll EXCEPT !.pc = "returned"]
    /\ UNCHANGED poolVars
    /\ ClientOnly

PollNext ==
    \/ \E t \in TurnIds, session_id \in SuppliedSessions : ClientPost(t, session_id)
    \/ \E on_disk \in BOOLEAN : ClientPoll(on_disk)
    \/ ClientDownload
    \/ Start
    \/ Stop
    \/ \E e \in Executors : Worker(e)

PollSpec == Init /\ [][PollNext]_vars

\* ------------------------------------------------------------- the turn store on its own
\* TurnStore() (store.py 8-9): no record; every other component as built.
FreshInit ==
    /\ PoolAbsent
    /\ history_limit = max_history_turns
    /\ registry = Endpoints
    /\ executions = <<>>
    /\ memory_call = NoCall
    /\ response = NoResponse
    /\ ExtraInit

StoreUnchanged ==
    UNCHANGED <<queue, unfinished_tasks, pool, pc, frame, pipeline_history, memories,
                memory_vectors, tool_registry, memory, enqueues, history_limit,
                registry, executions, memory_call, response, poll, ring, voice>>

\* store.put(turn) (store.py 11-12), the record being at any status.
StorePut(t, s, status) ==
    LET turn == [NewTurn(t, s, AudioPath) EXCEPT !.status = status]
    IN  /\ store' = Put(store, turn)
        /\ store_call' = [op |-> "put", turn |-> turn, before |-> store]
        /\ UNCHANGED all_returned
        /\ StoreUnchanged

\* store.get(turn_id) (store.py 14-15): dict.get, None for an id without
\* record.
StoreGet(t) ==
    /\ store_call' = [op |-> "get", turn_id |-> t, before |-> store,
                      result |-> IF Has(store, t) THEN store[t] ELSE NoneVal]
    /\ UNCHANGED <<store, all_returned>>
    /\ StoreUnchanged

\* store.all() (store.py 17-18) returns self._turns, the dict the store
\* keeps, not a copy of it: `seen` is what it held when the call returned.
StoreAll ==
    /\ store_call' = [op |-> "all", before |-> store]
    /\ all_returned' = [op |-> "all", ref |-> "_turns", seen |-> store]
    /\ UNCHANGED store
    /\ StoreUnchanged

\* What the caller reads now in the value a call of all() gave it.
ContentsOf(returned) == IF returned.ref = "_turns" THEN store ELSE returned.seen

StoreNext ==
    \/ \E t \in TurnIds, s \in Sessions, status \in {"queued", "done"} :
           StorePut(t, s, status)
    \/ \E t \in TurnIds : StoreGet(t)
    \/ StoreAll

StoreSpec == FreshInit /\ [][StoreNext]_vars

\* ------------------------------------------------------------- the ring buffer on its own
\* RingBuffer(max_bytes), and the appends made between two clears.
max_bytes == 3
MaxChunks == 4

\* The chunks the audio callback delivers, as their bytes.
Chunks == {<<>>, <<1>>, <<2, 3>>, <<4, 5, 6, 7>>}

\* b"".join(chunks)
RECURSIVE Join(_)
Join(chunks) == IF chunks = <<>> THEN <<>> ELSE Head(chunks) \o Join(Tail(chunks))

\* Mutant: the newest chunk is the one dropped.
RECURSIVE DropNewest(_)
DropNewest(r) ==
    IF r.size_bytes > max_bytes /\ r.chunks # <<>>
    THEN DropNewest([r EXCEPT !.chunks = SubSeq(@, 1, Len(@) - 1),
                              !.size_bytes = @ - Len(r.chunks[Len(r.chunks)])])
    ELSE r
\* while self._size_bytes > self._max_bytes and self._chunks: popleft
\* (assistant_voice.py 117-119)
RECURSIVE DropOldest(_)
DropOldest(r) ==
    IF r.size_bytes > max_bytes /\ r.chunks # <<>>
    THEN DropOldest([r EXCEPT !.chunks = Tail(@),
                              !.size_bytes = @ - Len(Head(r.chunks))])
    ELSE r

RingOnly ==
    UNCHANGED <<poolVars, history_limit, registry, executions, memory_call, response,
                store_call, all_returned, poll, voice>>

\* ring_buffer.append(data) (assistant_voice.py 112-119)
RingAppend(data) ==
    /\ Len(ring.arrived) < MaxChunks
    /\ ring' = IF data = <<>> THEN ring
               ELSE DropOldest([ring EXCEPT !.chunks = Append(@, data),
                                            !.size_bytes = @ + Len(data),
                                            !.arrived = Append(@, data)])
    /\ RingOnly

\* ring_buffer.get_bytes() (assistant_voice.py 121-122), with the state it
\* was called in.
RingGetBytes ==
    /\ ring' = [ring EXCEPT !.returned =
                   [op |-> "get_bytes", bytes |-> Join(ring.chunks),
                    arrived |-> ring.arrived, size_bytes |-> ring.size_bytes]]
    /\ RingOnly

\* ring_buffer.clear() (assistant_voice.py 124-126)
RingClear ==
    /\ ring' = [ring EXCEPT !.chunks = <<>>, !.size_bytes = 0, !.arrived = <<>>]
    /\ RingOnly

RingNext ==
    \/ \E data \in Chunks : RingAppend(data)
    \/ RingGetBytes
    \/ RingClear

RingSpec == FreshInit /\ [][RingNext]_vars

\* ------------------------------------------------------------- the wake-word loop
FRAME_MS == 20
SILENCE_RMS_THRESHOLD == 350
SILENCE_DURATION_MS == 700
\* MAX_CMD_SEC = 6.0 and COOLDOWN_SEC = 1.5, in milliseconds.
MAX_CMD_MS == 6000
COOLDOWN_MS == 1500

\* The time between two iterations' clock readings: a frame's length, or
\* much longer when the loop was held up (a transcription, a backlog).
Delays == {FRAME_MS, 1000}
\* compute_rms of a frame: silence, and the threshold itself.
RmsValues == {0, SILENCE_RMS_THRESHOLD}

VoiceOnly ==
    UNCHANGED <<poolVars, history_limit, registry, executions, memory_call, response,
                store_call, all_returned, poll, ring>>

\* run up to its loop (assistant_voice.py 160-181): it returns at once
\* without a Whisper backend.
VoiceRun(whisper_model) ==
    /\ voice.pc = "new"
    /\ voice' = [voice EXCEPT !.pc = IF whisper_model THEN "loop" ELSE "returned"]
    /\ VoiceOnly

\* Mutant: the end of a capture leaves the pre-roll in the ring buffer.
EndCaptureKeepsRing(v) ==
    [v EXCEPT !.capturing = FALSE, !.cooldown_left = COOLDOWN_MS,
              !.recognizer_fresh = TRUE, !.last = "end"]
\* capturing = False; self.cooldown_until = time.monotonic() + COOLDOWN_SEC;
\* self.ring_buffer.clear(); self.reset_recognizer()
\* (assistant_voice.py 211-214)
EndCapture(v) ==
    [v EXCEPT !.capturing = FALSE, !.cooldown_left = COOLDOWN_MS,
              !.ring_empty = TRUE, !.recognizer_fresh = TRUE, !.last = "end"]

\* One iteration of the loop (assistant_voice.py 182-214) on the next
\* chunk, read `delay` after the last one: `hotword` is what detect_hotword
\* answers, `rms` the frame's level, `raises` whether transcribe_with_whisper
\* raises.  An exception leaves the loop for the guard of lines 215-218,
\* and run returns.
VoiceFrame(delay, hotword, rms, raises) ==
    /\ voice.pc = "loop"
    /\ LET heard == [voice EXCEPT !.ring_empty = FALSE]
           left == IF voice.cooldown_left > delay THEN voice.cooldown_left - delay ELSE 0
           silence_ms == IF rms < SILENCE_RMS_THRESHOLD
                         THEN voice.silence_ms + FRAME_MS ELSE 0
           elapsed == voice.elapsed + delay
           captured == [heard EXCEPT !.rms = rms, !.silence_ms = silence_ms,
                                     !.elapsed = elapsed]
       IN  voice' =
             IF ~voice.capturing
             THEN IF left > 0
                  THEN [heard EXCEPT !.cooldown_left = left, !.last = "skip"]
                  ELSE IF hotword
                  THEN [heard EXCEPT !.cooldown_left = 0, !.recognizer_fresh = FALSE,
                                     !.capturing = TRUE, !.elapsed = 0,
                                     !.silence_ms = 0, !.last = "detect"]
                  ELSE [heard EXCEPT !.cooldown_left = 0, !.recognizer_fresh = FALSE,
                                     !.last = "detect"]
             ELSE IF silence_ms >= SILENCE_DURATION_MS \/ elapsed >= MAX_CMD_MS
                  THEN IF raises
                       THEN [captured EXCEPT !.pc = "returned", !.last = "raised"]
                       ELSE EndCapture(captured)
                  ELSE [captured EXCEPT !.last = "capture"]
    /\ VoiceOnly

VoiceNext ==
    \/ \E whisper_model \in BOOLEAN : VoiceRun(whisper_model)
    \/ \E delay \in Delays, hotword \in BOOLEAN, rms \in RmsValues, raises \in BOOLEAN :
           VoiceFrame(delay, hotword, rms, raises)

VoiceSpec == FreshInit /\ [][VoiceNext]_vars

\* ------------------------------------------------------------- helpers of the claims
Running(e) == pc[e] \notin Suspended \cup {"loop"}
InQueue(t) == \E i \in 1..Len(queue) : queue[i] = t
LlmCalls(e) == SelectSeq(frame[e].calls, LAMBDA c : c.op = "llm")
ToolRuns(e) == SelectSeq(frame[e].calls, LAMBDA c : c.op = "tool")
\* The run of e has set assistant_text and nothing has failed since.
Answered(e) ==
    pc[e] \in {"append_user", "append_assistant", "push_history", "tts", "mark_done"}

OpCalls(e, op) == SelectSeq(frame[e].calls, LAMBDA c : c.op = op)
\* The behaviours of a handler or a service that make a tool call fail.
FailingOutcomes == {"none", "http_exception", "exception", "request_exception", "http_error"}

\* The collaborator call whose duration a key of timings holds.
StageOf(key) ==
    CASE key = "asr_s" -> "asr" [] key = "tts_s" -> "tts" [] OTHER -> "llm"

\* The entries logged for a session, oldest first, as fetch_recent shows them.
SessionEntries(session) ==
    LET rows == SelectSeq(memories, LAMBDA r : r.session_id = session)
    IN  [i \in 1..Len(rows) |-> [role |-> rows[i].role, content |-> rows[i].content]]
\* The vector rows of a session by their position (their id) in the table,
\* and the `candidates` most recent of them.
VectorIds(session) ==
    {i \in 1..Len(memory_vectors) : memory_vectors[i].session_id = session}
CandidateIds(session, candidates) ==
    {i \in VectorIds(session) :
        Cardinality({j \in VectorIds(session) : j > i}) < candidates}
\* Row i goes before row j: a higher score, or the same score and more recent.
Before(q, i, j) ==
    \/ ScoreGreater(q, memory_vectors[i].embedding, memory_vectors[j].embedding)
    \/ /\ ~ScoreGreater(q, memory_vectors[j].embedding, memory_vectors[i].embedding)
       /\ i > j
RankOf(q, ids, i) == 1 + Cardinality({j \in ids : Before(q, j, i)})
Occurrences(seq, x) == Cardinality({i \in 1..Len(seq) : seq[i] = x})

\* The route answered with a status code of its own (no exception left it).
Responded(result) == "status_code" \in DOMAIN result

StatusSteps ==
    {<<"queued", "transcribing">>, <<"transcribing", "generating">>,
     <<"generating", "synthesizing">>, <<"synthesizing", "done">>}

\* ------------------------------------------------------------- claims
\* C1: a Turn Record's status changes only one step along queued ->
\* transcribing -> generating -> synthesizing -> done, or from a non-terminal
\* status to error; once done or error, no step changes it.
C1_StatusPath ==
    [][\A t \in DOMAIN store :
          LET a == store[t].status
              b == store'[t].status
          IN  \/ a = b
              \/ <<a, b>> \in StatusSteps
              \/ (a \notin Terminal /\ b = "error")]_vars

\* C2: on a started pool that is not stopped, every enqueued id of a stored
\* turn leads to that turn being in a terminal status with no job for it
\* waiting or running.
C2_EveryJobTerminates ==
    \A t \in TurnIds :
        (pool = "started" /\ Has(store, t) /\ InQueue(t))
            ~> (\/ pool = "stopped"
                \/ /\ Has(store, t)
                   /\ store[t].status \in Terminal
                   /\ ~InQueue(t)
                   /\ \A e \in Executors : frame[e].turn # t)
C2_Witness ==
    /\ pool = "started"
    /\ enqueues = MaxEnqueues
    /\ queue = <<>>
    /\ \A e \in Executors : pc[e] = "idle"
    /\ Cardinality({t \in DOMAIN store : store[t].status \in Terminal}) = MaxEnqueues

\* C3: at most one executor runs the Pipeline on a given Turn Record.
C3_SingleFlight ==
    \A e1, e2 \in Executors :
        (e1 # e2 /\ Running(e1) /\ Running(e2)) => frame[e1].turn # frame[e2].turn
C3_Witness ==
    \E e \in Executors :
        /\ pc[e] = "llm"
        /\ InQueue(frame[e].turn)
        /\ \E f \in Executors : f # e /\ pc[f] = "idle"

\* C4: an exception that leaves a Pipeline run is caught by the executor: the
\* turn has status error and the exception's message as error, the executor
\* stands in its finally block, and no executor ends unless the pool is
\* stopped.
C4_ExceptionCaught ==
    \A e \in Executors :
        /\ frame[e].raised # NoneVal =>
              /\ pc[e] \in {"finally", "task_done"}
              /\ store[frame[e].turn].status = "error"
              /\ store[frame[e].turn].error = frame[e].raised
        /\ pc[e] = "cancelled" => pool = "stopped"
        /\ pool = "started" => pc[e] # "new"
C4_Witness ==
    \E e \in Executors :
        /\ pc[e] = "run"
        /\ \E t \in DOMAIN store : store[t].status = "error" /\ store[t].error = "llm failed"

\* C5: a turn whose audio input reference is missing or empty is never in
\* transcribing, generating or synthesizing, gets no transcript, timing,
\* answer or audio, ends in error with the message of the audio check, and
\* its run calls no collaborator.
C5_NoAudioNoCalls ==
    /\ \A t \in DOMAIN store :
          store[t].audio_in_path \in {NoneVal, ""} =>
              /\ store[t].status \in {"queued", "error"}
              /\ store[t].status = "error" => store[t].error = "audio_in_path is missing"
              /\ store[t].transcript = NoneVal
              /\ store[t].assistant_text = NoneVal
              /\ store[t].audio_out_path = NoneVal
              /\ store[t].timings = {}
    /\ \A e \in Executors :
          (Running(e) /\ store[frame[e].turn].audio_in_path \in {NoneVal, ""}) =>
              /\ frame[e].calls = <<>>
              /\ pc[e] \in {"run", "finally", "task_done"}
C5_Witness ==
    \E e \in Executors :
        /\ pc[e] = "finally"
        /\ store[frame[e].turn].audio_in_path = ""
        /\ store[frame[e].turn].status = "error"

\* C6: when the embedding provider raises during recall (the Memory Store
\* search), the turn is not failed.
C6_RecallSoftFail ==
    \A e \in Executors :
        (/\ frame[e].calls # <<>>
         /\ frame[e].calls[Len(frame[e].calls)].op = "search"
         /\ frame[e].calls[Len(frame[e].calls)].raised)
            => store[frame[e].turn].status # "error"

\* C7: a Turn Record with status error exposes no assistant_text and no
\* audio_out reference.
C7_ErrorExposesNothing ==
    \A t \in DOMAIN store :
        store[t].status = "error" =>
            /\ store[t].assistant_text = NoneVal
            /\ store[t].audio_out_path = NoneVal

\* C8: while one executor is in a collaborator call for one turn, another
\* executor that waits for a job is not blocked: with a job in the queue it
\* can take it.
C8_OthersNotBlocked ==
    \A e, f \in Executors :
        (/\ e # f
         /\ pc[e] \in {"asr", "search", "llm", "tool", "llm_tools", "append_user",
                       "append_assistant", "tts"}
         /\ pc[f] = "idle"
         /\ pool = "started"
         /\ queue # <<>>)
            => ENABLED Dequeue(f)

\* C9: a run invokes the language model at most twice; it invokes it a second
\* time exactly when a Tool Registry is configured and the first response
\* held a tool call; no tool runs after the second invocation; assistant_text
\* is the second response's text when tools were requested, else the first's.
C9_AtMostTwoModelCalls ==
    \A e \in Executors :
        LET llm == LlmCalls(e)
            calls == frame[e].calls
            requested == tool_registry /\ llm[1].tool_calls # <<>>
        IN  /\ Len(llm) <= 2
            /\ Len(llm) = 2 => (~llm[1].raised /\ requested)
            /\ \A i, j \in 1..Len(calls) :
                  (i < j /\ calls[i].op = "llm" /\ calls[j].op = "tool")
                      => \A k \in 1..(i - 1) : calls[k].op # "llm"
            /\ Answered(e) =>
                  IF requested
                  THEN Len(llm) = 2 /\ TurnOf(e).assistant_text = llm[2].text
                  ELSE Len(llm) = 1 /\ TurnOf(e).assistant_text = llm[1].text
C9_Witness ==
    \E e \in Executors :
        /\ pc[e] = "tts"
        /\ Len(LlmCalls(e)) = 2
        /\ LlmCalls(e)[1].text # LlmCalls(e)[2].text
        /\ TurnOf(e).assistant_text = "ok"

\* C10: the requested tool calls c1..cn run in that order, all before the
\* second model invocation; tool_results has n entries, the i-th with the id
\* and name of ci; the second invocation's messages are the first's, then one
\* assistant message listing c1..cn, then one tool message per call in order.
C10_ToolLoopOrder ==
    \A e \in Executors :
        LET llm == LlmCalls(e)
            runs == ToolRuns(e)
            cs == llm[1].tool_calls
            n == Len(cs)
            m1 == llm[1].messages
            m2 == llm[2].messages
        IN  /\ Len(runs) > 0 =>
                  /\ Len(runs) <= n
                  /\ \A i \in 1..Len(runs) :
                        runs[i].id = cs[i].id /\ runs[i].name = cs[i].name
            /\ Len(llm) = 2 =>
                  /\ Len(runs) = n
                  /\ Len(m2) = Len(m1) + 1 + n
                  /\ SubSeq(m2, 1, Len(m1)) = m1
                  /\ m2[Len(m1) + 1].role = "assistant"
                  /\ Len(m2[Len(m1) + 1].tool_calls) = n
                  /\ \A i \in 1..n :
                        /\ m2[Len(m1) + 1].tool_calls[i].id = cs[i].id
                        /\ m2[Len(m1) + 1].tool_calls[i].function.name = cs[i].name
                        /\ m2[Len(m1) + 1 + i].role = "tool"
                        /\ m2[Len(m1) + 1 + i].tool_call_id = cs[i].id
                        /\ m2[Len(m1) + 1 + i].name = cs[i].name
            /\ (Len(llm) = 2 /\ Answered(e)) =>
                  /\ TurnOf(e).tool_results # Unset
                  /\ Len(TurnOf(e).tool_results[1]) = n
                  /\ \A i \in 1..n :
                        /\ TurnOf(e).tool_results[1][i].tool_call_id = cs[i].id
                        /\ TurnOf(e).tool_results[1][i].name = cs[i].name
C10_Witness ==
    \E e \in Executors :
        /\ pc[e] = "tts"
        /\ Len(LlmCalls(e)) = 2
        /\ Len(ToolRuns(e)) = Len(call_list)
        /\ ToolRuns(e)[1].id # ToolRuns(e)[2].id

\* C11: a tool call that fails (the name is not registered, the handler
\* raises, the remote call fails) does not raise into the run: its entry of
\* tool_results has ok = FALSE, the run goes on with the remaining calls, and
\* once all have run the model is invoked a second time; no run is ever left
\* by a tool call.
C11_ToolFailureNotFatal ==
    \A e \in Executors :
        LET runs == ToolRuns(e)
            n == Len(LlmCalls(e)[1].tool_calls)
            calls == frame[e].calls
        IN  /\ \A i \in 1..Len(runs) :
                  /\ ~runs[i].raised
                  /\ runs[i].outcome \in FailingOutcomes =>
                        /\ Len(frame[e].tool_results) >= i
                        /\ frame[e].tool_results[i].tool_call_id = runs[i].id
                        /\ frame[e].tool_results[i].result.ok = FALSE
            /\ (frame[e].raised # NoneVal) => calls[Len(calls)].op # "tool"
            /\ (Len(runs) > 0 /\ pc[e] # "tool") => Len(runs) = n
            /\ (Len(runs) > 0 /\ pc[e] \notin {"tool", "llm_tools"}) => Len(LlmCalls(e)) = 2
C11_Witness ==
    \E t \in DOMAIN store :
        /\ store[t].status = "done"
        /\ store[t].tool_results # Unset
        /\ Len(store[t].tool_results[1]) = Len(call_list)
        /\ \A i \in 1..Len(call_list) : store[t].tool_results[1][i].result.ok = FALSE

\* C12: ToolRegistry.execute never raises: whatever the name (bound to a
\* handler, to a url, to neither, or not registered) and the arguments, it
\* returns a result with an ok flag, and ok is FALSE for a name that is not
\* registered.
C12_ExecuteTotal ==
    \A i \in 1..Len(executions) :
        /\ Returned(executions[i].result)
        /\ executions[i].result.ok \in BOOLEAN
        /\ executions[i].tool_name \notin DOMAIN registry =>
              executions[i].result.ok = FALSE

\* C13: whatever max_history_turns >= 0 the Pipeline was built with, the
\* history it keeps for a session never holds more than 2 * max_history_turns
\* messages.
C13_HistoryBounded ==
    \A s \in DOMAIN pipeline_history :
        Len(pipeline_history[s]) <= 2 * history_limit

\* The most recent n elements of a list, in their order.
MostRecent(seq, n) ==
    IF n >= Len(seq) THEN seq ELSE SubSeq(seq, Len(seq) - n + 1, Len(seq))

\* C14: a step that changes a session's history leaves it equal to the
\* previous history followed by the user utterance and the answer, cut to its
\* most recent 2 * max_history_turns messages.
C14_HistoryPush ==
    [][\A s \in DOMAIN pipeline_history' :
          LET previous == IF s \in DOMAIN pipeline_history
                          THEN pipeline_history[s] ELSE <<>>
          IN  \/ pipeline_history'[s] = previous
              \/ \E transcript \in Transcripts, answer \in Answers :
                    pipeline_history'[s] =
                        MostRecent(previous \o <<Msg("user", OrEmpty(transcript)),
                                                 Msg("assistant", OrEmpty(answer))>>,
                                   2 * history_limit)]_vars

\* C15: a job whose record exists is marked complete only from the end of
\* the executor's finally block, after store.put(turn) there; the write-back
\* happens only once the Pipeline has returned or raised, when the record
\* is done or error.
C15_WriteBack ==
    /\ [](\A e \in Executors :
             /\ frame[e].put_back => pc[e] = "task_done"
             /\ pc[e] = "task_done" =>
                   /\ frame[e].put_back
                   /\ Has(store, frame[e].turn)
                   /\ store[frame[e].turn].status \in Terminal)
    /\ [][/\ unfinished_tasks' < unfinished_tasks =>
                \/ (queue # <<>> /\ ~Has(store, Head(queue)) /\ queue' = Tail(queue))
                \/ \E e \in Executors :
                      pc[e] = "task_done" /\ frame[e].put_back /\ pc'[e] = "loop"
          /\ \A e \in Executors :
                (frame[e].turn # NoTurn /\ frame'[e].turn = NoTurn) =>
                    /\ frame[e].put_back
                    /\ unfinished_tasks' = unfinished_tasks - 1]_vars
C15_Witness ==
    \E e \in Executors :
        /\ pc[e] = "task_done"
        /\ frame[e].put_back
        /\ store[frame[e].turn].status = "done"
        /\ unfinished_tasks = 1
        /\ \E t \in DOMAIN store : store[t].status = "error" /\ store[t].transcript # NoneVal

\* C16: jobs leave the queue oldest first and are run one at a time: the
\* queue only loses its head, and a run is of the job that was the head; while
\* an executor runs a turn no other executor runs one; a record is in
\* transcribing, generating or synthesizing only while an executor runs it;
\* and when a turn leaves queued, every other turn is done, error or still
\* queued (so every turn whose job was taken earlier has reached done or
\* error).
C16_FifoOneAtATime ==
    /\ [](/\ \A e, f \in Executors : (Running(e) /\ Running(f)) => e = f
          /\ \A t \in DOMAIN store :
                store[t].status \in InFlight =>
                    \E e \in Executors : Running(e) /\ frame[e].turn = t)
    /\ [][/\ Len(queue') < Len(queue) => queue' = Tail(queue)
          /\ Len(queue') > Len(queue) => SubSeq(queue', 1, Len(queue)) = queue
          /\ \A e \in Executors :
                (pc[e] # "run" /\ pc'[e] = "run") => frame'[e].turn = Head(queue)
          /\ \A t \in DOMAIN store :
                (store[t].status = "queued" /\ store'[t].status # "queued") =>
                    /\ \E e \in Executors : pc[e] = "run" /\ frame[e].turn = t
                    /\ \A u \in DOMAIN store :
                          u # t => store[u].status \in Terminal \cup {"queued"}]_vars
C16_Witness ==
    \E e \in Executors :
        /\ pc[e] = "tts"
        /\ queue # <<>>
        /\ queue[1] # frame[e].turn
        /\ Has(store, queue[1])
        /\ store[queue[1]].status = "queued"

\* C17: stop() is a single step that ends every executor and touches no
\* record and no job; it never falls into a Pipeline run (an executor that
\* runs a turn holds the loop until the turn is finished), so once the pool
\* is stopped every executor is gone, no record is in transcribing,
\* generating or synthesizing, and no record changes any more: the turns
\* still in the queue stay queued.
C17_StopEndsExecutors ==
    /\ [](pool = "stopped" =>
             /\ \A e \in Executors : pc[e] = "cancelled" /\ frame[e] = EmptyFrame
             /\ \A t \in DOMAIN store : store[t].status \notin InFlight)
    /\ [][/\ (pool = "started" /\ pool' = "stopped") =>
                /\ \A e \in Executors : ~Running(e)
                /\ store' = store
                /\ queue' = queue
          /\ pool = "stopped" =>
                /\ pool' = "stopped"
                /\ \A t \in DOMAIN store : store'[t] = store[t]
                /\ \A i \in 1..Len(queue) : queue'[i] = queue[i]]_vars
C17_Witness ==
    /\ pool = "stopped"
    /\ queue # <<>>
    /\ Has(store, queue[1])
    /\ store[queue[1]].status = "queued"
    /\ \E t \in DOMAIN store : store[t].status = "done"

\* C18: the step that takes a job whose id has no record off the queue
\* leaves the store, the memory, the history and every executor's run as they
\* are (no record is created, no collaborator called), marks the job
\* complete, and leaves the executor at the top of its loop.
C18_AbsentRecordSkipped ==
    [][(queue # <<>> /\ ~Has(store, Head(queue)) /\ queue' = Tail(queue)) =>
          /\ store' = store
          /\ frame' = frame
          /\ memories' = memories
          /\ memory_vectors' = memory_vectors
          /\ pipeline_history' = pipeline_history
          /\ unfinished_tasks' = unfinished_tasks - 1
          /\ \E e \in Executors :
                /\ CanGet(e)
                /\ pc'[e] = "loop"
                /\ \A f \in Executors : f # e => pc'[f] = pc[f]]_vars
C18_Witness ==
    \E e \in Executors :
        /\ pc[e] = "asr"
        /\ store[frame[e].turn].timings = {}
        /\ store[frame[e].turn].error = NoneVal
        /\ Cardinality(DOMAIN store) = 1
        /\ enqueues = 2
        /\ queue = <<>>
        /\ unfinished_tasks = 1

\* C19: a Pipeline run starts only by an executor taking one job off the
\* queue; no step of an executor adds a job (only a caller's enqueue does);
\* a run calls the transcriber at most once and the synthesizer at most once;
\* a record that is done or error, with no job of its own waiting or held,
\* is never changed.
C19_NeverRetried ==
    /\ [](\A e \in Executors :
             Len(OpCalls(e, "asr")) <= 1 /\ Len(OpCalls(e, "tts")) <= 1)
    /\ [][/\ \A e \in Executors :
                (pc'[e] = "run" /\ (pc[e] # "run" \/ frame'[e] # frame[e])) =>
                    /\ pc[e] \in {"idle", "loop"}
                    /\ queue # <<>>
                    /\ queue' = Tail(queue)
                    /\ frame'[e].turn = Head(queue)
          /\ Len(queue') > Len(queue) =>
                /\ enqueues' = enqueues + 1
                /\ pc' = pc
                /\ frame' = frame
          /\ \A t \in DOMAIN store :
                (/\ store[t].status \in Terminal
                 /\ ~InQueue(t)
                 /\ \A e \in Executors : frame[e].turn # t) => store'[t] = store[t]]_vars
C19_Witness ==
    /\ pool = "started"
    /\ \A e \in Executors : pc[e] = "idle"
    /\ queue = <<>>
    /\ unfinished_tasks = 0
    /\ enqueues = 1
    /\ \E t \in DOMAIN store : store[t].status = "error" /\ store[t].error = "Piper failed"

\* C20: in every state, a Turn Record has its error field set exactly when
\* its status is error.
C20_ErrorIffStatusError ==
    \A t \in DOMAIN store :
        (store[t].error # NoneVal) <=> (store[t].status = "error")

\* C21: the timings of a turn only grow: no step removes a key; a key is
\* added only by the step in which that stage's collaborator call returned to
\* the run of that turn; a turn with status done has the asr, llm and tts
\* durations.
C21_TimingsGrow ==
    /\ [](\A t \in DOMAIN store :
             store[t].status = "done" => {"asr_s", "llm_s", "tts_s"} \subseteq store[t].timings)
    /\ [][\A t \in DOMAIN store :
             /\ t \in DOMAIN store'
             /\ store[t].timings \subseteq store'[t].timings
             /\ \A key \in store'[t].timings \ store[t].timings :
                   \E e \in Executors :
                       /\ frame[e].turn = t
                       /\ Len(frame'[e].calls) = Len(frame[e].calls) + 1
                       /\ frame'[e].calls[Len(frame'[e].calls)].op = StageOf(key)
                       /\ ~frame'[e].calls[Len(frame'[e].calls)].raised]_vars
C21_Witness ==
    \E t \in DOMAIN store :
        /\ store[t].status = "generating"
        /\ store[t].timings = {"asr_s", "llm_s", "llm_tools_s", "tts_s"}

\* C22: an append that returns has added exactly one entry to the log
\* (memories); with non-empty content it has also stored one vector; with
\* empty content the entry is logged and is the newest fetch_recent gives for
\* the session, no vector is stored and the embedding provider is not called.
C22_AppendLogsOne ==
    (memory_call.op = "append" /\ ~memory_call.raised) =>
        /\ memory_call.logged = 1
        /\ memory_call.content # "" => memory_call.vectors = 1
        /\ memory_call.content = "" =>
              /\ memory_call.vectors = 0
              /\ ~memory_call.embedded
              /\ FetchRecent(memories, memory_call.session_id, 1) =
                     <<[role |-> memory_call.role, content |-> ""]>>

\* C23: fetch_recent(session, N) gives nothing for N <= 0, else at most N
\* entries: the N most recently logged entries of the session (all of them
\* if fewer), oldest first, and no entry of another session.
C23_FetchRecent ==
    memory_call.op = "fetch_recent" =>
        /\ memory_call.limit <= 0 => memory_call.result = <<>>
        /\ memory_call.limit > 0 =>
              /\ Len(memory_call.result) <= memory_call.limit
              /\ memory_call.result =
                     MostRecent(SessionEntries(memory_call.session_id), memory_call.limit)
C23_Witness ==
    /\ memory_call.op = "fetch_recent"
    /\ memory_call.limit = 2
    /\ Len(SessionEntries(memory_call.session_id)) = 3
    /\ Len(memory_call.result) = 2
    /\ memory_call.result[1] # memory_call.result[2]

\* C24: search(session, q, K) that returns gives at most K entries, each the
\* content of a vector row of the session, no row counted twice.
C24_SearchSession ==
    (memory_call.op = "search" /\ ~memory_call.raised) =>
        /\ Len(memory_call.result) <= (IF memory_call.limit > 0 THEN memory_call.limit ELSE 0)
        /\ \A k \in 1..Len(memory_call.result) :
              Occurrences(memory_call.result, memory_call.result[k]) <=
                  Cardinality({i \in VectorIds(memory_call.session_id) :
                                  memory_vectors[i].content = memory_call.result[k]})
C24_Witness ==
    /\ memory_call.op = "search"
    /\ memory_call.limit = 1
    /\ Len(memory_call.result) = 1
    /\ Cardinality(VectorIds(memory_call.session_id)) = 2
    /\ \E i \in 1..Len(memory_vectors) :
          /\ memory_vectors[i].session_id # memory_call.session_id
          /\ memory_vectors[i].content = memory_call.query

\* C25: a search that embeds its query ranks the candidate_limit most recent
\* vector rows of the session, higher score first and the more recent first
\* among equal scores, and gives the contents of the first `limit` of them.
C25_SearchRanking ==
    (memory_call.op = "search" /\ memory_call.embedded /\ ~memory_call.raised) =>
        LET ids == CandidateIds(memory_call.session_id, memory_call.candidate_limit)
            q == EmbeddingOf(memory_call.query)
            n == IF memory_call.limit < Cardinality(ids)
                 THEN memory_call.limit ELSE Cardinality(ids)
        IN  /\ Len(memory_call.result) = n
            /\ \A k \in 1..n :
                  \E i \in ids :
                      /\ RankOf(q, ids, i) = k
                      /\ memory_call.result[k] = memory_vectors[i].content
C25_Witness ==
    /\ memory_call.op = "search"
    /\ memory_call.query = "ok"
    /\ memory_call.limit = 2
    /\ memory_call.candidate_limit = 2
    /\ Cardinality(VectorIds(memory_call.session_id)) = 3
    /\ memory_vectors[1].content = "oui"
    /\ memory_call.result = <<"bonjour", "oui">>

\* C26: from the first model invocation of a run until the run pushes to the
\* history, the prompt of that invocation is: the system instructions; then
\* the memory block, there exactly when recall returned at least one entry;
\* then the session's history as it stands, oldest first; then the current
\* utterance as the last message, which the history does not hold yet.
C26_PromptOrder ==
    \A e \in Executors :
        (/\ pc[e] \in {"tool", "llm_tools", "append_user", "append_assistant", "push_history"}
         /\ Len(LlmCalls(e)) >= 1) =>
            LET m == LlmCalls(e)[1].messages
                h == pipeline_history[TurnOf(e).session_id]
                search == OpCalls(e, "search")
                block == Len(search) = 1 /\ ~search[1].raised /\ search[1].found > 0
                k == IF block THEN 2 ELSE 1
            IN  /\ Len(m) = k + Len(h) + 1
                /\ m[1] = Msg("system", system_prompt)
                /\ block =>
                      /\ m[2].role = "system"
                      /\ "rag" \in DOMAIN m[2]
                      /\ Len(m[2].rag) = search[1].found
                /\ \A i \in 1..Len(m) : "rag" \in DOMAIN m[i] => (block /\ i = 2)
                /\ SubSeq(m, k + 1, k + Len(h)) = h
                /\ m[Len(m)] = Msg("user", OrEmpty(TurnOf(e).transcript))
C26_Witness ==
    \E e \in Executors :
        /\ pc[e] = "push_history"
        /\ Len(LlmCalls(e)) = 2
        /\ Len(LlmCalls(e)[1].messages) = 5
        /\ "rag" \in DOMAIN LlmCalls(e)[1].messages[2]

\* C27: a run calls memory.search exactly when a Memory Store is configured
\* and the transcript is not blank; and when the search returned at least
\* one entry, the run is not ended by it: it goes on to the model invocation
\* with the entries in the memory block.
C27_RecallProceeds ==
    \A e \in Executors :
        LET search == OpCalls(e, "search")
            asr == OpCalls(e, "asr")
        IN  /\ Len(search) <= 1
            /\ (pc[e] \notin {"asr", "search"} /\ Len(asr) = 1 /\ ~asr[1].raised) =>
                  (Len(search) = 1 <=>
                      (memory /\ Strip(OrEmpty(TurnOf(e).transcript)) # ""))
            /\ (Len(search) = 1 /\ ~search[1].raised /\ search[1].found > 0) =>
                  /\ frame[e].raised # NoneVal =>
                        frame[e].calls[Len(frame[e].calls)].op # "search"
                  /\ Len(frame[e].rag_snippets) = search[1].found

\* C28: get-turn answers for every stored Turn Record, whatever its status
\* and whether or not it ran tools, with its status, transcript, assistant
\* text, tool trace, error, timings and audio availability; it answers not
\* found exactly when the id is not in the store.
C28_GetTurnTotal ==
    response.route = "get_turn" =>
        /\ Responded(response.result)
        /\ response.stored <=> response.result.status_code = 200
        /\ ~response.stored <=> response.result.status_code = 404
        /\ response.stored =>
              /\ response.result.body.status = response.status
              /\ {"transcript", "assistant_text", "tool_calls", "tool_results", "error",
                   "timings", "audio_url"} \subseteq DOMAIN response.result.body

\* C29: get-turn-audio gives the audio only for a turn it reads with status
\* done and an output reference, wherever the request falls in the run of
\* the turn; read with any other status, the turn's audio is not found.
C29_AudioOnlyWhenDone ==
    (response.route = "get_turn_audio" /\ response.result.status_code = 200) =>
        /\ response.stored
        /\ response.status = "done"

\* C30: create-turn puts the record (status queued, audio reference set, an
\* id no record has, the session given or a generated one) in the step that
\* enqueues its id, and no record ever leaves the store: every id in the
\* queue has its record, and every job taken off the queue is run on its
\* record, none is skipped for an absent one.
C30_StoredBeforeEnqueued ==
    /\ [](\A i \in 1..Len(queue) : Has(store, queue[i]))
    /\ [][/\ \A t \in DOMAIN store : t \in DOMAIN store'
          /\ Len(queue') > Len(queue) =>
                LET t == queue'[Len(queue')]
                IN  /\ queue' = Append(queue, t)
                    /\ ~Has(store, t)
                    /\ Has(store', t)
                    /\ store'[t].turn_id = t
                    /\ store'[t].status = "queued"
                    /\ Truthy(store'[t].audio_in_path)
                    /\ response'.route = "create_turn"
                    /\ store'[t].session_id =
                           IF response'.given # NoneVal THEN response'.given
                           ELSE GeneratedSession(t)
                    /\ response'.result = Ok([turn_id |-> t,
                                              session_id |-> store'[t].session_id])
          /\ Len(queue') < Len(queue) =>
                /\ Has(store, Head(queue))
                /\ \E e \in Executors :
                      pc'[e] = "run" /\ frame'[e].turn = Head(queue)]_vars
C30_Witness ==
    \E e \in Executors :
        /\ pc[e] = "run"
        /\ response.route = "create_turn"
        /\ response.result.body.turn_id = frame[e].turn
        /\ store[frame[e].turn].session_id = GeneratedSession(frame[e].turn)
        /\ store[frame[e].turn].status = "queued"

\* The messages of a prompt between its system messages and its last one.
HistoryPart(messages) ==
    SubSeq(messages,
           IF Len(messages) >= 2 /\ "rag" \in DOMAIN messages[2] THEN 3 ELSE 2,
           Len(messages) - 1)

\* The history of a session, empty for a session that has no list yet.
HistoryOf(session) ==
    IF session \in DOMAIN pipeline_history THEN pipeline_history[session] ELSE <<>>
\* The part of a run after the final answer up to the push of the history.
Pushing == {"append_user", "append_assistant", "push_history"}

\* The last n elements of a sequence.
Suffix(seq, n) == SubSeq(seq, Len(seq) - n + 1, Len(seq))
\* The total length of a sequence of chunks.
RECURSIVE TotalLen(_)
TotalLen(chunks) == IF chunks = <<>> THEN 0 ELSE Len(Head(chunks)) + TotalLen(Tail(chunks))

\* C31: the turn store holds one record per id, filed under the record's own
\* id, and never loses one: a put makes the store the old one with that id's
\* record set to the record put and every other id's record as it was; get
\* returns the record of an id that has one (None otherwise) and, like all,
\* leaves the store as it is.
C31_StoreKeepsRecords ==
    /\ [](\A t \in DOMAIN store : store[t].turn_id = t)
    /\ [][/\ \A t \in DOMAIN store : t \in DOMAIN store'
          /\ store_call' # store_call =>
                /\ store_call'.before = store
                /\ store_call'.op = "put" =>
                      LET turn == store_call'.turn
                      IN  /\ DOMAIN store' = DOMAIN store \cup {turn.turn_id}
                          /\ store'[turn.turn_id] = turn
                          /\ \A t \in DOMAIN store \ {turn.turn_id} :
                                store'[t] = store[t]
                /\ store_call'.op = "get" =>
                      /\ store' = store
                      /\ Has(store, store_call'.turn_id) =>
                            /\ store_call'.result = store[store_call'.turn_id]
                            /\ store_call'.result.turn_id = store_call'.turn_id
                      /\ ~Has(store, store_call'.turn_id) =>
                            store_call'.result = NoneVal
                /\ store_call'.op = "all" => store' = store]_vars
C31_Witness ==
    /\ store_call.op = "put"
    /\ Has(store_call.before, store_call.turn.turn_id)
    /\ store_call.before[store_call.turn.turn_id] # store_call.turn
    /\ Cardinality(DOMAIN store) = MaxTurns

\* C32: the value all() returned holds, whenever it is read, what the store
\* held when the call returned: a later put does not show in it.
C32_AllIsSnapshot ==
    all_returned.op = "all" => ContentsOf(all_returned) = all_returned.seen

\* C33: the history is kept per session: a step changes (or creates) the
\* history of a session only while a run for a turn of that session is under
\* way, and the prompt a run builds carries, between the system messages and
\* the utterance, the history of its turn's session and nothing else.
C33_HistoryPerSession ==
    [][/\ \A s \in DOMAIN pipeline_history' :
            (s \notin DOMAIN pipeline_history \/ pipeline_history'[s] # pipeline_history[s])
                => \E e \in Executors : Running(e) /\ TurnOf(e).session_id = s
       /\ \A e \in Executors :
            (frame'[e].messages # frame[e].messages /\ frame'[e].messages # <<>>)
                => HistoryPart(frame'[e].messages) =
                       pipeline_history'[store'[frame'[e].turn].session_id]]_vars
C33_Witness ==
    \E e \in Executors, s \in DOMAIN pipeline_history :
        /\ pc[e] = "tts"
        /\ TurnOf(e).session_id # s
        /\ pipeline_history[s] # <<>>
        /\ pipeline_history[TurnOf(e).session_id] # pipeline_history[s]
        /\ HistoryPart(frame[e].messages) = <<>>

\* C34: the messages of the histories and the rows of the memory log change
\* only in the steps a run takes after its final answer (the two appends
\* and the push), and a run gets to them only from a model call that
\* returned the answer it stored: a run that fails in transcription, recall,
\* a model call or a tool call, and the handler and the finally block after
\* it, leave every history and the log as they were.
C34_FailedTurnLeavesNoTrace ==
    [][/\ (\/ memories' # memories
           \/ memory_vectors' # memory_vectors
           \/ \E s \in DOMAIN pipeline_history' : HistoryOf(s)' # HistoryOf(s))
          => \E e \in Executors : pc[e] \in Pushing
       /\ \A e \in Executors :
            (pc'[e] \in Pushing /\ pc[e] \notin Pushing) =>
                LET calls == frame'[e].calls
                    last == calls[Len(calls)]
                IN  /\ pc[e] \in {"llm", "llm_tools"}
                    /\ last.op = "llm"
                    /\ ~last.raised
                    /\ store'[frame'[e].turn].assistant_text = last.text
                    /\ frame'[e].raised = NoneVal]_vars
C34_Witness ==
    \E e \in Executors :
        /\ pc[e] = "finally"
        /\ frame[e].raised # NoneVal
        /\ frame[e].calls[Len(frame[e].calls)].op = "llm"
        /\ ToolRuns(e) # <<>>
        /\ HistoryOf(TurnOf(e).session_id) # <<>>
        /\ memories # <<>>

\* C35: with a memory configured, a turn's utterance and answer are in the
\* log exactly when they are in the history: a run that has pushed them to
\* the history has logged both, as the session's two latest entries, and a
\* run that failed before the push has logged nothing.
C35_HistoryAndLogTogether ==
    memory =>
        \A e \in Executors :
            /\ pc[e] \in {"tts", "mark_done"} =>
                  LET entries == SessionEntries(TurnOf(e).session_id)
                  IN  /\ Len(entries) >= 2
                      /\ SubSeq(entries, Len(entries) - 1, Len(entries)) =
                             <<Msg("user", OrEmpty(TurnOf(e).transcript)),
                               Msg("assistant", OrEmpty(TurnOf(e).assistant_text))>>
            /\ (pc[e] = "finally" /\ frame[e].raised # NoneVal) =>
                  \A i \in 1..Len(frame[e].calls) :
                      frame[e].calls[i].op = "append" =>
                          frame[e].calls[i].raised \/ frame[e].calls[i].content = ""

\* C36: the queue's count of unfinished jobs is the number of jobs waiting
\* plus the number of jobs an executor holds, never negative and never above
\* the number enqueued; a step raises it by one exactly when it enqueues a
\* job and lowers it by one for each job it ends, and a job ends only by the
\* skip for an absent record or by the task_done that closes the finally
\* block, which every job held by an executor comes to whether its run
\* succeeded or failed.
C36_TaskDoneOncePerJob ==
    /\ [](/\ unfinished_tasks = Len(queue) + Cardinality({e \in Executors : Running(e)})
          /\ unfinished_tasks >= 0
          /\ unfinished_tasks <= enqueues)
    /\ [][LET closed == {e \in Executors : pc[e] = "task_done" /\ pc'[e] = "loop"}
              ended == {e \in Executors : Running(e) /\ ~Running(e)'}
              skipped == IF Len(queue') < Len(queue) /\ ~Has(store, Head(queue))
                         THEN 1 ELSE 0
          IN  /\ ended = closed
              /\ enqueues' \in {enqueues, enqueues + 1}
              /\ unfinished_tasks' =
                     unfinished_tasks + (enqueues' - enqueues)
                     - Cardinality(closed) - skipped]_vars
C36_Witness ==
    /\ unfinished_tasks = 0
    /\ enqueues = MaxEnqueues
    /\ \E t \in DOMAIN store : store[t].status = "done"
    /\ \E t \in DOMAIN store : store[t].status = "error"

\* C37: a tool call whose raw arguments are the empty string or are not JSON
\* is executed like any other, with the empty argument object: the call
\* does not raise, and tool_results gets the entry of that call with the
\* result execute gave for the empty object.
C37_BadArgumentsRunEmpty ==
    \A e \in Executors :
        \A i \in 1..Len(ToolRuns(e)) :
            LET ran == ToolRuns(e)[i]
                call == frame[e].tool_calls[i]
            IN  /\ ran.id = call.id
                /\ call.arguments \in {"", "{oops"} =>
                      /\ ran.arguments = Dict({})
                      /\ ~ran.raised
                      /\ Len(frame[e].tool_results) >= i
                      /\ frame[e].tool_results[i] =
                             [tool_call_id |-> call.id, name |-> call.name,
                              result |-> Execute(registry, call.name, Dict({}),
                                                 ran.outcome)]
C37_Witness ==
    \E e \in Executors :
        /\ pc[e] = "mark_done"
        /\ TurnOf(e).tool_results = Some(frame[e].tool_results)
        /\ Len(frame[e].tool_results) = Len(frame[e].tool_calls)
        /\ \E i, j, k \in 1..Len(frame[e].tool_results) :
              /\ frame[e].tool_calls[i].arguments = ""
              /\ frame[e].tool_calls[j].arguments = "{oops"
              /\ frame[e].tool_results[k].result.ok

\* C38: run_pipeline ends only on a terminal status of its turn: it has
\* returned only after reading done, it has raised only after reading error
\* or done, and a poll that read error has raised; while the record is at any
\* other status the client is still polling.
C38_ClientEndsOnTerminal ==
    /\ poll.pc = "returned" => poll.read = "done"
    /\ poll.pc = "raised" => poll.read \in {"done", "error"}
    /\ poll.read = "error" => poll.pc = "raised"
    /\ poll.read \in {"queued", "transcribing", "generating", "synthesizing"} =>
           poll.pc = "polling"

\* C39: the ring buffer's recorded size is the total length of its chunks
\* and at most max_bytes; the chunks held are the most recent of those
\* stored since the last clear, as many full chunks as fit in max_bytes,
\* in the order they came; get_bytes returned their bytes in that order:
\* the last size bytes of everything stored since the last clear.
C39_RingBuffer ==
    /\ ring.size_bytes = TotalLen(ring.chunks)
    /\ ring.size_bytes <= max_bytes
    /\ \E n \in 0..Len(ring.arrived) :
          /\ ring.chunks = Suffix(ring.arrived, n)
          /\ n < Len(ring.arrived) => TotalLen(Suffix(ring.arrived, n + 1)) > max_bytes
    /\ ring.returned.op = "get_bytes" =>
          ring.returned.bytes =
              Suffix(Join(ring.returned.arrived), ring.returned.size_bytes)
C39_Witness ==
    /\ ring.returned.op = "get_bytes"
    /\ Len(ring.returned.arrived) = 3
    /\ ring.returned.bytes = <<2, 3, 1>>
    /\ ring.arrived = <<<<1>>, <<4, 5, 6, 7>>>>
    /\ ring.chunks = <<>>

\* C40 as stated: an iteration runs the hotword detection only when no
\* capture is on and the cooldown is over; an iteration of a capture counts
\* the frame's silence (a loud frame sets the counter to 0) and the capture
\* is over after it exactly when the counter has reached
\* SILENCE_DURATION_MS or the command has lasted MAX_CMD_SEC; the end of a
\* capture always leaves capturing false, the cooldown started, the ring
\* buffer empty and the recognizer fresh.
C40_CaptureEnds ==
    [][voice' # voice /\ voice.pc = "loop" =>
        /\ voice'.last = "detect" => ~voice.capturing /\ voice'.cooldown_left = 0
        /\ voice.capturing =>
              /\ voice'.silence_ms =
                     IF voice'.rms < SILENCE_RMS_THRESHOLD
                     THEN voice.silence_ms + FRAME_MS ELSE 0
              /\ (voice'.silence_ms >= SILENCE_DURATION_MS \/ voice'.elapsed >= MAX_CMD_MS)
                     <=> voice'.last = "end"
              /\ voice'.last # "end" => voice'.capturing /\ voice'.pc = "loop"
        /\ voice'.last = "end" =>
              /\ voice.capturing
              /\ ~voice'.capturing
              /\ voice'.cooldown_left = COOLDOWN_MS
              /\ voice'.ring_empty
              /\ voice'.recognizer_fresh]_vars

\* C40 amended: as stated, except that the end of a capture does its four
\* assignments only when the transcription returns: when it raises, the
\* loop is left and run returns with capturing, the cooldown, the ring
\* buffer and the recognizer as the last frame left them.
C40_CaptureEndsOrLoopStops ==
    [][voice' # voice /\ voice.pc = "loop" =>
        /\ voice'.last = "detect" => ~voice.capturing /\ voice'.cooldown_left = 0
        /\ voice.capturing =>
              /\ voice'.silence_ms =
                     IF voice'.rms < SILENCE_RMS_THRESHOLD
                     THEN voice.silence_ms + FRAME_MS ELSE 0
              /\ (voice'.silence_ms >= SILENCE_DURATION_MS \/ voice'.elapsed >= MAX_CMD_MS)
                     <=> voice'.last \in {"end", "raised"}
              /\ voice'.last \notin {"end", "raised"} =>
                     voice'.capturing /\ voice'.pc = "loop"
        /\ voice'.last = "end" =>
              /\ voice.capturing
              /\ ~voice'.capturing
              /\ voice'.pc = "loop"
              /\ voice'.cooldown_left = COOLDOWN_MS
              /\ voice'.ring_empty
              /\ voice'.recognizer_fresh
        /\ voice'.last = "raised" =>
              /\ voice'.pc = "returned"
              /\ voice'.capturing
              /\ voice'.cooldown_left = voice.cooldown_left
              /\ ~voice'.ring_empty
              /\ voice'.recognizer_fresh = voice.recognizer_fresh]_vars
C40_Witness ==
    /\ voice.last = "end"
    /\ voice.silence_ms = SILENCE_DURATION_MS
    /\ voice.elapsed > SILENCE_DURATION_MS + FRAME_MS
    /\ voice.elapsed < MAX_CMD_MS
    /\ voice.cooldown_left = COOLDOWN_MS
    /\ voice.ring_empty

====
